---- MODULE Spec2Model ----
(***************************************************************************)
(* Model of the smart-heating integration's closed-loop preheating core:   *)
(*   - AnticipationEngine (anticipation.py): the Idle/Active state machine *)
(*   - ThermalModel.add_session (thermal_model.py): bounded session list   *)
(*   - FeedbackLoop.start_tracking / record_result (feedback.py)           *)
(*                                                                         *)
(* Units.  Temperatures are integers in tenths of a degree Celsius (19.5   *)
(* degrees is 195), so the thresholds 0.2 and 0.3 of the code are 2 and 3. *)
(* Times are integers in minutes on one clock (datetime.now()), so the     *)
(* code's "total_seconds() > 600" is "more than 10 minutes".               *)
(* Thresholds are compared exactly on these integers; the rounding of      *)
(* binary floating point at the boundary values is not modelled.           *)
(* An Optional[...] value is a sequence: None is << >>, a value x is <<x>>.*)
(***************************************************************************)
EXTENDS Integers, Sequences, FiniteSets, TLC

VARIABLES
    state,                    \* AnticipationEngine.state : AnticipationState
    last_consigne_sent,       \* AnticipationEngine._last_consigne_sent
    last_consigne_sent_time,  \* AnticipationEngine._last_consigne_sent_time
    now,                      \* the wall clock read by datetime.now()
    ticks,                    \* number of clock advances made so far
    ev,                       \* the evaluation that has just returned (history)
    sessions,                 \* ThermalModel.sessions
    inertia,                  \* ThermalModel._inertia
    added,                    \* number of add_session calls made so far
    history,                  \* FeedbackLoop.history
    pending_start,            \* FeedbackLoop._pending_start
    recorded,                 \* number of results appended so far
    est_call,                 \* the estimate_time_to_target call that has just returned (history)
    suggestion,               \* the get_margin_suggestion call that has just returned (history)
    anticipation_active,      \* SmartHeatingCoordinator._anticipation_active
    safety_margin,            \* SmartHeatingCoordinator.safety_margin
    llm_margin_adjustment,    \* SmartHeatingCoordinator._llm_margin_adjustment
    cyc,                      \* the control cycle that has just run (history)
    periods,                  \* Active periods begun and ended, tracking calls made (history)
    llm_call,                 \* the _call_llm run that has just finished (history)
    last_llm_response,        \* coordinator._last_llm_response
    sched_call,               \* the schedule lookup that has just returned (history)
    codec_call,               \* the save and load that has just been done (history)
    cycle_pc,                 \* the control cycle suspended in _send_consigne, if any
    current_session,          \* SmartHeatingCoordinator._current_session
    last_off_time,            \* SmartHeatingCoordinator._last_off_time
    hvac_seen,                \* what the cycles have read of hvac_action (history)
    load_call,                \* the _load_data run that has just finished (history)
    rec_call,                 \* the record_result call that has just returned (history)
    enabled,                  \* SmartHeatingCoordinator.enabled
    reset_call,               \* the reset_sessions service call that has just run (history)
    coordinators,             \* hass.data[DOMAIN]: the coordinator of each configured zone
    services,                 \* hass.services: the handler registered under each service name
    svc_call                  \* the service call that has just been handled (history)

vars == <<state, last_consigne_sent, last_consigne_sent_time, now, ticks, ev,
          sessions, inertia, added, history, pending_start, recorded,
          est_call, suggestion, anticipation_active, safety_margin,
          llm_margin_adjustment, cyc, periods, llm_call, last_llm_response,
          sched_call,
          codec_call,
          cycle_pc,
          current_session,
          last_off_time,
          hvac_seen,
          load_call,
          rec_call,
          enabled,
          reset_call,
          coordinators,
          services,
          svc_call>>

engineVars == <<state, last_consigne_sent, last_consigne_sent_time, now, ticks, ev>>
thermalVars == <<sessions, inertia, added>>
feedbackVars == <<history, pending_start, recorded>>
queryVars == <<est_call, suggestion, sched_call, codec_call, cycle_pc, current_session,
               last_off_time, hvac_seen, load_call, rec_call, enabled, reset_call, coordinators, services, svc_call>>
coordVars == <<anticipation_active, safety_margin, llm_margin_adjustment, cyc, periods, llm_call,
               last_llm_response>>

(***************************************************************************)
(* Optional values                                                         *)
(***************************************************************************)
None == << >>
Some(x) == <<x>>
Val(o) == o[1]

\* Python truthiness of a float | None: None and 0.0 are falsy.
Truthy(o) == o # None /\ Val(o) # 0

(***************************************************************************)
(* Bounds of the model and program constants                               *)
(***************************************************************************)
MaxTicks == 1          \* clock advances explored in one behaviour
MaxAdds == 102         \* add_session calls explored
MaxRecords == 60       \* record_result appends explored

MAX_SESSIONS == 100    \* thermal_model.py: "Keep max 100 sessions"
MAX_HISTORY == 30      \* feedback.py: MAX_HISTORY
RESEND_MINUTES == 10   \* anticipation.py: total_seconds() > 600
START_BUFFER == 2      \* anticipation.py: minutes_until_start <= 2
REACHED_BAND == 2      \* anticipation.py: next_consigne - 0.2
DELTA_MIN == 3         \* anticipation.py: delta > 0.3, drift > 0.3
MIN_VALID_DURATION == 50  \* thermal_model.py: duration_min >= 5 (tenths of a minute)

\* Input values explored (tenths of a degree, minutes).
IndoorTemps == {None, Some(-10), Some(191), Some(192), Some(193)}
Consignes == {None, Some(0), Some(195)}
MinutesNeeded == {None, Some(0), Some(8), Some(30)}
TransitionOffsets == {10, 33}
TickSteps == {10, 11}
TargetTimes(t) == {None} \cup {Some(t + d) : d \in TransitionOffsets}
ScheduleStates == {None, Some(160), Some(192)}
ClimateSetpoints == {None, Some(198), Some(199)}

(***************************************************************************)
(* AnticipationState and the engine after construction                     *)
(***************************************************************************)
AnticipationState(active) ==
    [active |-> active,
     target_consigne |-> None,
     target_time |-> None,
     minutes_needed |-> None,
     minutes_until_target |-> None,
     optimal_start_time |-> None,
     started_at |-> None,
     temp_at_start |-> None]

NoEval == [called |-> FALSE]

Max(a, b) == IF a >= b THEN a ELSE b

(***************************************************************************)
(* AnticipationEngine.  An engine value is the triple of fields the code   *)
(* mutates: [state, sent, sent_time] for self.state,                       *)
(* self._last_consigne_sent and self._last_consigne_sent_time.             *)
(***************************************************************************)
Engine(st, sent, sent_time) == [state |-> st, sent |-> sent, sent_time |-> sent_time]

\* __init__: state = AnticipationState(), nothing sent yet.
NewEngine == Engine(AnticipationState(FALSE), None, None)

\* _deactivate(): a fresh inactive state, and the send bookkeeping is cleared.
Deactivate(eng) == Engine(AnticipationState(FALSE), None, None)

\* _send_consigne(temperature): the service call either succeeds (ok), and
\* the bookkeeping is updated, or raises, which is caught and logged only.
SendConsigne(eng, temperature, t, ok) ==
    IF ok THEN Engine(eng.state, Some(temperature), Some(t)) ELSE eng

\* "No data or no target": any of the three values is None.
MissingData(temp_indoor, next_consigne, minutes_needed) ==
    temp_indoor = None \/ next_consigne = None \/ minutes_needed = None

\* Mutant: the missing-data branch forgets to clear the flag.
LostSignal_Keeps(eng) == eng

\* The missing-data branch on an active engine: only the flag is cleared.
LostSignal(eng) ==
    Engine([eng.state EXCEPT !.active = FALSE], eng.sent, eng.sent_time)

\* Mutant: the anti-short-cycle gate is ignored.
AntiCycleBlocks_Off(is_anti_cycle_active, active) == FALSE

\* "Anti-cycle active: don't start": is_anti_cycle_active and not self.state.active
AntiCycleBlocks(is_anti_cycle_active, active) ==
    is_anti_cycle_active /\ ~active

\* Mutant: the 0.2 band is dropped from the reached test.
AtOrAboveTarget_NoBand(temp_indoor, next_consigne) ==
    temp_indoor >= next_consigne

\* "Already at or above target": temp_indoor >= next_consigne - 0.2
AtOrAboveTarget(temp_indoor, next_consigne) ==
    temp_indoor >= next_consigne - REACHED_BAND

\* The else branch's test on the schedule entity's state (_get_current_consigne).
ScheduleBelow(next_consigne, current_sched) ==
    current_sched # None /\ next_consigne > Val(current_sched) + DELTA_MIN

\* Whether async_evaluate takes the schedule-aware branch (target_time known).
ScheduleAware(minutes_needed, target_time) ==
    target_time # None /\ minutes_needed > 0

\* Mutant: the two-minute start buffer is dropped.
ShouldStart_NoBuffer(t, minutes_needed, next_consigne, target_time, current_sched) ==
    IF ScheduleAware(minutes_needed, target_time)
    THEN LET minutes_until_transition == Val(target_time) - t
             minutes_until_start == minutes_until_transition - minutes_needed
         IN  IF minutes_until_start <= 0 THEN TRUE
             ELSE IF minutes_until_transition < 0 THEN TRUE
             ELSE FALSE
    ELSE ScheduleBelow(next_consigne, current_sched)

\* should_start, as computed by lines 140-171.
ShouldStart(t, minutes_needed, next_consigne, target_time, current_sched) ==
    IF ScheduleAware(minutes_needed, target_time)
    THEN LET minutes_until_transition == Val(target_time) - t
             minutes_until_start == minutes_until_transition - minutes_needed
         IN  IF minutes_until_start <= START_BUFFER THEN TRUE
             ELSE IF minutes_until_transition < 0 THEN TRUE
             ELSE FALSE
    ELSE ScheduleBelow(next_consigne, current_sched)

\* Mutant: no estimate is made when the schedule gave no time.
EstimatedTargetTime_Raw(t, minutes_needed, next_consigne, target_time, current_sched) ==
    target_time

\* estimated_target_time when the activation block is entered (lines 141-177).
EstimatedTargetTime(t, minutes_needed, next_consigne, target_time, current_sched) ==
    LET est == IF ScheduleAware(minutes_needed, target_time) THEN target_time
               ELSE IF ScheduleBelow(next_consigne, current_sched)
                    THEN Some(t + minutes_needed)
                    ELSE target_time
    IN  IF est = None THEN Some(t + minutes_needed) ELSE est

\* Mutant: the activation guard accepts a delta of exactly 0.3.
CanActivate_Weak(temp_indoor, next_consigne, minutes_needed) ==
    next_consigne - temp_indoor >= DELTA_MIN /\ minutes_needed > 0

\* The activation guard inside "if should_start and not self.state.active".
CanActivate(temp_indoor, next_consigne, minutes_needed) ==
    next_consigne - temp_indoor > DELTA_MIN /\ minutes_needed > 0

\* The state built on activation (lines 190-199).
ActivatedState(t, temp_indoor, next_consigne, minutes_needed, est) ==
    [active |-> TRUE,
     target_consigne |-> Some(next_consigne),
     target_time |-> est,
     minutes_needed |-> Some(minutes_needed),
     minutes_until_target |-> Some(minutes_needed),
     optimal_start_time |-> Some(t),
     started_at |-> Some(t),
     temp_at_start |-> Some(temp_indoor)]

\* Mutant: an Active period ends when the start condition no longer holds.
StillNeeded_OnlyWhileDue(should_start, temp_indoor, next_consigne) == should_start

\* "Still active": should_start or (next_consigne and temp_indoor < next_consigne - 0.2)
StillNeeded(should_start, temp_indoor, next_consigne) ==
    should_start \/ (next_consigne # 0 /\ temp_indoor < next_consigne - REACHED_BAND)

\* should_resend from the 10-minute rule (lines 214-217).
IntervalElapsed(t, sent_time) ==
    sent_time = None \/ t - Val(sent_time) > RESEND_MINUTES

\* The drift test on the climate entity's reported setpoint (lines 220-225).
Drifted(climate_setpoint, target_consigne) ==
    /\ climate_setpoint # None
    /\ target_consigne # None
    /\ LET d == Val(climate_setpoint) - Val(target_consigne)
       IN  (IF d < 0 THEN -d ELSE d) > DELTA_MIN

\* "if should_resend and self.state.target_consigne": the target is tested
\* for truthiness, so a target of 0.0 counts as absent.
ResendGuard(should_resend, target_consigne) ==
    should_resend /\ Truthy(target_consigne)

\* max(0, (target_time - now) in minutes if target_time else 0)
MinutesUntilTarget(t, target_time) ==
    IF target_time # None THEN Max(0, Val(target_time) - t) ELSE 0

\* The outcome of one async_evaluate call: the engine afterwards and the
\* setpoint commands attempted in it (a sequence of temperatures).
Outcome(eng, attempts) == [eng |-> eng, attempts |-> attempts]

\* Mutant: a drifted climate setpoint is taken over and sent back.
StayActive_AdoptsDrift(eng, t, climate_setpoint, ok) ==
    LET st1 == [eng.state EXCEPT
                  !.minutes_until_target = Some(MinutesUntilTarget(t, eng.state.target_time))]
        eng1 == Engine(st1, eng.sent, eng.sent_time)
    IN  IF Drifted(climate_setpoint, st1.target_consigne)
        THEN Outcome(SendConsigne(eng1, Val(climate_setpoint), t, ok), <<Val(climate_setpoint)>>)
        ELSE IF ResendGuard(IntervalElapsed(t, eng.sent_time), st1.target_consigne)
        THEN Outcome(SendConsigne(eng1, Val(st1.target_consigne), t, ok),
                     <<Val(st1.target_consigne)>>)
        ELSE Outcome(eng1, << >>)

\* The Active branch that stays Active (lines 205-235): the remaining time is
\* updated and the state's target is sent again when due.
StayActive(eng, t, climate_setpoint, ok) ==
    LET st1 == [eng.state EXCEPT
                  !.minutes_until_target = Some(MinutesUntilTarget(t, eng.state.target_time))]
        eng1 == Engine(st1, eng.sent, eng.sent_time)
        should_resend == IntervalElapsed(t, eng.sent_time)
                         \/ Drifted(climate_setpoint, st1.target_consigne)
    IN  IF ResendGuard(should_resend, st1.target_consigne)
        THEN Outcome(SendConsigne(eng1, Val(st1.target_consigne), t, ok),
                     <<Val(st1.target_consigne)>>)
        ELSE Outcome(eng1, << >>)

Activate(eng, t, temp_indoor, next_consigne, minutes_needed, est, ok) ==
    LET eng1 == Engine(ActivatedState(t, temp_indoor, next_consigne, minutes_needed, est),
                       eng.sent, eng.sent_time)
    IN  Outcome(SendConsigne(eng1, next_consigne, t, ok), <<next_consigne>>)

\* async_evaluate(temp_indoor, temp_outdoor, minutes_needed, next_consigne,
\*                is_anti_cycle_active, target_time, effective_margin).
\* temp_outdoor and effective_margin are not read by the body.  current_sched
\* and climate_setpoint are what hass.states returns for the schedule and the
\* climate entity; ok is whether the service call of _send_consigne succeeds.
AsyncEvaluate(eng, t, temp_indoor, minutes_needed, next_consigne, is_anti_cycle_active, target_time, current_sched, climate_setpoint, ok) ==
    IF MissingData(temp_indoor, next_consigne, minutes_needed)
    THEN IF eng.state.active
         THEN Outcome(LostSignal(eng), << >>)
         ELSE Outcome(eng, << >>)
    ELSE LET ti == Val(temp_indoor)
             nc == Val(next_consigne)
             mn == Val(minutes_needed)
         IN
         IF AtOrAboveTarget(ti, nc)
         THEN IF eng.state.active THEN Outcome(Deactivate(eng), << >>)
              ELSE Outcome(eng, << >>)
         ELSE IF AntiCycleBlocks(is_anti_cycle_active, eng.state.active)
         THEN Outcome(eng, << >>)
         ELSE LET should_start == ShouldStart(t, mn, nc, target_time, current_sched)
                  est == EstimatedTargetTime(t, mn, nc, target_time, current_sched)
              IN
              IF should_start /\ ~eng.state.active
              THEN IF CanActivate(ti, nc, mn)
                   THEN Activate(eng, t, ti, nc, mn, est, ok)
                   ELSE Outcome(eng, << >>)
              ELSE IF eng.state.active
              THEN IF StillNeeded(should_start, ti, nc)
                   THEN StayActive(eng, t, climate_setpoint, ok)
                   ELSE Outcome(Deactivate(eng), << >>)
              ELSE Outcome(eng, << >>)

\* Which external reads a call makes, so that unread values are not explored.
ReachesDecision(eng, temp_indoor, minutes_needed, next_consigne, is_anti_cycle_active) ==
    /\ ~MissingData(temp_indoor, next_consigne, minutes_needed)
    /\ ~AtOrAboveTarget(Val(temp_indoor), Val(next_consigne))
    /\ ~AntiCycleBlocks(is_anti_cycle_active, eng.state.active)

ReadsSchedule(eng, temp_indoor, minutes_needed, next_consigne, is_anti_cycle_active, target_time) ==
    /\ ReachesDecision(eng, temp_indoor, minutes_needed, next_consigne, is_anti_cycle_active)
    /\ ~ScheduleAware(Val(minutes_needed), target_time)

ReadsClimate(eng, temp_indoor, minutes_needed, next_consigne, is_anti_cycle_active) ==
    /\ ReachesDecision(eng, temp_indoor, minutes_needed, next_consigne, is_anti_cycle_active)
    /\ eng.state.active

CurrentEngine == Engine(state, last_consigne_sent, last_consigne_sent_time)

(***************************************************************************)
(* ThermalModel.  Speeds are integers in units of 0.00001 degree/minute    *)
(* (the coordinator stores round(speed, 5)), durations in tenths of a      *)
(* minute (round(duration_min, 1)).                                        *)
(***************************************************************************)
\* Python's a[-n:] on a list.
LastN(a, n) == IF Len(a) <= n THEN a ELSE SubSeq(a, Len(a) - n + 1, Len(a))

RECURSIVE SumSeq(_)
SumSeq(q) == IF q = << >> THEN 0 ELSE q[1] + SumSeq(Tail(q))

\* The k-th smallest element of a non-empty sequence of integers (sorted(q)[k-1]).
KthSmallest(q, k) ==
    CHOOSE x \in {q[i] : i \in 1..Len(q)} :
        /\ Cardinality({i \in 1..Len(q) : q[i] < x}) < k
        /\ Cardinality({i \in 1..Len(q) : q[i] <= x}) >= k

\* round(a / b) to an integer, ties to even, for a >= 0 and b > 0.
RoundDiv(a, b) ==
    LET q == a \div b
        r == a % b
    IN  IF 2 * r < b THEN q
        ELSE IF 2 * r > b THEN q + 1
        ELSE IF q % 2 = 0 THEN q ELSE q + 1

\* statistics.median, rounded to the stored precision.
MedianOf(q) ==
    LET n == Len(q)
    IN  IF n % 2 = 1 THEN KthSmallest(q, (n + 1) \div 2)
        ELSE RoundDiv(KthSmallest(q, n \div 2) + KthSmallest(q, n \div 2 + 1), 2)

\* self._inertia = {}: every .get() on it gives None.
NoInertia ==
    [avg_speed |-> None, median_speed |-> None, min_speed |-> None,
     max_speed |-> None, num_sessions |-> None]

IsValidSession(s) ==
    s.speed_degc_per_min > 0 /\ s.duration_min >= MIN_VALID_DURATION

\* _recalculate(): the aggregate statistics over the valid sessions.  The
\* per-bucket means (by_ext_temp) and min_per_deg are derived from the same
\* speeds and are not carried here.
Recalculate(ss) ==
    LET valid == SelectSeq(ss, IsValidSession)
        speeds == [i \in 1..Len(valid) |-> valid[i].speed_degc_per_min]
    IN  IF ss = << >> \/ valid = << >> THEN NoInertia
        ELSE [avg_speed |-> Some(RoundDiv(SumSeq(speeds), Len(speeds))),
              median_speed |-> Some(MedianOf(speeds)),
              min_speed |-> Some(KthSmallest(speeds, 1)),
              max_speed |-> Some(KthSmallest(speeds, Len(speeds))),
              num_sessions |-> Some(Len(valid))]

\* Mutant: the cap keeps the first 100 sessions, dropping the newest.
AddSessionTo_DropsNewest(ss, session) ==
    LET a == Append(ss, session)
    IN  IF Len(a) > MAX_SESSIONS THEN SubSeq(a, 1, MAX_SESSIONS) ELSE a

\* add_session(session): append, then keep the last 100.
AddSessionTo(ss, session) ==
    LET a == Append(ss, session)
    IN  IF Len(a) > MAX_SESSIONS THEN LastN(a, MAX_SESSIONS) ELSE a

\* The n-th session handed to add_session.  Its date is n, so that insertion
\* order can be read off the list; speed and duration cycle through a valid
\* and an invalid value each.
NthSession(n) ==
    [date |-> n,
     temp_start |-> 180,
     temp_end |-> 195,
     temp_ext_avg |-> 50,
     delta_temp |-> 15,
     duration_min |-> IF n % 5 = 0 THEN 40 ELSE 300,
     speed_degc_per_min |-> IF n % 4 = 0 THEN 0 ELSE 5000 + 500 * (n % 3),
     anticipated |-> FALSE]

\* One call of add_session, with its trailing _recalculate().
AddSession ==
    /\ added < MaxAdds
    /\ LET ss == AddSessionTo(sessions, NthSession(added + 1))
       IN  /\ sessions' = ss
           /\ inertia' = Recalculate(ss)
    /\ added' = added + 1
    /\ UNCHANGED <<engineVars, feedbackVars, queryVars, coordVars>>

(***************************************************************************)
(* ThermalModel.estimate_time_to_target.  Margins are integers in percent. *)
(* A speed handed from _get_speed_for_ext_temp to the estimate is a        *)
(* fraction [num, den] of 0.00001 degree/minute: statistics.median of an   *)
(* even number of speeds is the unrounded mean of the two middle ones.     *)
(***************************************************************************)
Abs(x) == IF x < 0 THEN -x ELSE x

Fraction(num, den) == [num |-> num, den |-> den]

NoEstimate == [called |-> FALSE]

\* bucket = round(ext_temp / 5) * 5, in tenths of a degree.
Bucket(ext_temp) == RoundDiv(ext_temp, 50) * 50

\* Mutant: a session exactly 5 degrees from the bucket is left out.
IsNearby_Strict(s, bucket) == Abs(s.temp_ext_avg - bucket) < 50

\* abs(s.temp_ext_avg - bucket) <= 5
IsNearby(s, bucket) == Abs(s.temp_ext_avg - bucket) <= 50

\* statistics.median(speeds), not rounded.
ExactMedian(q) ==
    LET n == Len(q)
    IN  IF n % 2 = 1 THEN Fraction(KthSmallest(q, (n + 1) \div 2), 1)
        ELSE Fraction(KthSmallest(q, n \div 2) + KthSmallest(q, n \div 2 + 1), 2)

\* _get_speed_for_ext_temp(ext_temp); inr is self._inertia (for avg_speed).
GetSpeedForExtTemp(ss, inr, ext_temp) ==
    IF ss = << >> THEN None
    ELSE LET bucket == Bucket(ext_temp)
             Near(s) == IsNearby(s, bucket)
             Positive(s) == s.speed_degc_per_min > 0
             nearby_sessions == SelectSeq(ss, Near)
             fast == SelectSeq(nearby_sessions, Positive)
             speeds == [i \in 1..Len(fast) |-> fast[i].speed_degc_per_min]
         IN  IF nearby_sessions # << >> /\ speeds # << >>
             THEN Some(ExactMedian(speeds))
             ELSE IF inr.avg_speed = None THEN None
                  ELSE Some(Fraction(Val(inr.avg_speed), 1))

\* Mutant: "delta < 0" in place of "delta <= 0".
NoHeatNeeded_Strict(delta) == delta < 0

\* "if delta <= 0: return 0"
NoHeatNeeded(delta) == delta <= 0

\* Mutant: the margin divides the base minutes instead of multiplying them.
Minutes_DivMargin(delta, speed, margin) ==
    RoundDiv(delta * 1000000 * speed.den, speed.num * margin)

\* Mutant: the product is truncated (int) instead of rounded.
Minutes_Truncates(delta, speed, margin) ==
    (delta * margin * 100 * speed.den) \div speed.num

\* round(delta / speed * margin, 0): delta is in tenths of a degree, speed in
\* 0.00001 degree/minute and margin in percent, so the quotient in minutes is
\* delta * margin * 100 / speed.
Minutes(delta, speed, margin) ==
    RoundDiv(delta * margin * 100 * speed.den, speed.num)

\* The outcome of estimate_time_to_target: the value returned, and the speed
\* that _get_speed_for_ext_temp gave when it was called (looked_up).
EstimateOutcome(result, looked_up, speed) ==
    [result |-> result, looked_up |-> looked_up, speed |-> speed]

\* estimate_time_to_target(current_temp, target_temp, ext_temp, margin)
EstimateTimeToTarget(ss, inr, current_temp, target_temp, ext_temp, margin) ==
    LET delta == target_temp - current_temp
    IN  IF NoHeatNeeded(delta) THEN EstimateOutcome(Some(0), FALSE, None)
        ELSE LET speed == GetSpeedForExtTemp(ss, inr, ext_temp)
             IN  IF speed = None \/ Val(speed).num <= 0
                 THEN EstimateOutcome(None, TRUE, speed)
                 ELSE EstimateOutcome(Some(Minutes(delta, Val(speed), margin)), TRUE, speed)

\* The sessions a stored history can hold: warm or cool outdoors, a speed of
\* zero or one of three positive speeds, and a session shorter than 5 minutes.
MaxLoaded == 3

StoredSession(temp_ext_avg, duration_min, speed) ==
    [date |-> 0,
     temp_start |-> 180,
     temp_end |-> 195,
     temp_ext_avg |-> temp_ext_avg,
     delta_temp |-> 15,
     duration_min |-> duration_min,
     speed_degc_per_min |-> speed,
     anticipated |-> FALSE]

StoredSessions ==
    {StoredSession(x, 300, v) : x \in {50, 100}, v \in {0, 5000, 5500, 6000}}
        \cup {StoredSession(x, 40, 5500) : x \in {50, 100}}

StoredLists == UNION {[1..n -> StoredSessions] : n \in 1..MaxLoaded}

QueryCurrent == {180}
QueryTargets == {170, 180, 190, 200}
QueryOutdoor == {25, 50, 75, 160, 260}
QueryMargins == {81, 100, 115}

\* load_sessions(data): the stored list replaces the history, then
\* _recalculate().  Called once, from the coordinator's _load_data.
LoadSessions ==
    /\ sessions = << >>
    /\ ~est_call.called
    /\ \E data \in StoredLists :
         /\ sessions' = data
         /\ inertia' = Recalculate(data)
    /\ UNCHANGED <<engineVars, added, feedbackVars, queryVars, coordVars>>

\* One call of estimate_time_to_target on the current history.
EstimateQuery ==
    /\ ~est_call.called
    /\ \E current_temp \in QueryCurrent, target_temp \in QueryTargets,
          ext_temp \in QueryOutdoor, margin \in QueryMargins :
         LET out == EstimateTimeToTarget(sessions, inertia, current_temp,
                                         target_temp, ext_temp, margin)
         IN  est_call' = [called |-> TRUE,
                          current_temp |-> current_temp,
                          target_temp |-> target_temp,
                          ext_temp |-> ext_temp,
                          margin |-> margin,
                          result |-> out.result,
                          looked_up |-> out.looked_up,
                          speed |-> out.speed]
    /\ UNCHANGED <<engineVars, thermalVars, feedbackVars, suggestion, coordVars, sched_call,
                   codec_call, cycle_pc, current_session, last_off_time, hvac_seen,
                   load_call, rec_call, enabled, reset_call, coordinators, services,
                   svc_call>>

\* The caller has taken the estimate; the next query can be made.
EstimateReturn ==
    /\ est_call.called
    /\ est_call' = NoEstimate
    /\ UNCHANGED <<engineVars, thermalVars, feedbackVars, suggestion, coordVars, sched_call,
                   codec_call, cycle_pc, current_session, last_off_time, hvac_seen,
                   load_call, rec_call, enabled, reset_call, coordinators, services,
                   svc_call>>

(***************************************************************************)
(* FeedbackLoop.  Margins are integers in percent.                         *)
(***************************************************************************)
\* start_tracking(...): the pending observation, overwriting any earlier one.
PendingStart(t, target_temp, target_time, temp_at_start, margin_used, llm_adjustment, ext_temp) ==
    [target_temp |-> target_temp,
     target_time |-> target_time,
     temp_at_start |-> temp_at_start,
     margin_used |-> margin_used,
     llm_adjustment |-> llm_adjustment,
     ext_temp |-> ext_temp,
     started_at |-> t]

\* The AnticipationResult built by record_result (lines 125-148).
ResultOf(pending, t, current_temp, reached_target) ==
    [date |-> t,
     target_temp |-> pending.target_temp,
     actual_temp_at_target_time |-> current_temp,
     temp_at_start |-> pending.temp_at_start,
     target_time |-> pending.target_time,
     actual_arrival_time |-> IF reached_target THEN Some(t) ELSE None,
     minutes_early |-> IF reached_target THEN pending.target_time - t
                       ELSE -(t - pending.target_time),
     margin_used |-> pending.margin_used,
     llm_adjustment |-> pending.llm_adjustment,
     ext_temp_avg |-> pending.ext_temp,
     success |-> reached_target]

\* Mutant: the cap keeps the first 30 results, dropping the newest.
AppendResult_DropsNewest(hist, result) ==
    LET a == Append(hist, result)
    IN  IF Len(a) > MAX_HISTORY THEN SubSeq(a, 1, MAX_HISTORY) ELSE a

\* self.history.append(result), then keep the last MAX_HISTORY (lines 150-152).
AppendResult(hist, result) ==
    LET a == Append(hist, result)
    IN  IF Len(a) > MAX_HISTORY THEN LastN(a, MAX_HISTORY) ELSE a

\* One call of start_tracking.  The k-th tracked cycle targets minute k, so
\* that insertion order can be read off the history.
StartTracking ==
    /\ recorded < MaxRecords
    /\ pending_start' = Some(PendingStart(now, 195, recorded + 1, 180, 115, 0, 50))
    /\ UNCHANGED <<engineVars, thermalVars, history, recorded, queryVars, coordVars>>

\* One call of record_result: nothing happens without a pending observation.
RecordResult ==
    IF pending_start = None
    THEN UNCHANGED vars
    ELSE /\ history' = AppendResult(history,
                           ResultOf(Val(pending_start), now, 195, TRUE))
         /\ pending_start' = None
         /\ recorded' = recorded + 1
         /\ UNCHANGED <<engineVars, thermalVars, queryVars, coordVars>>

(***************************************************************************)
(* FeedbackLoop.record_result at the resolution of the clock.  The call    *)
(* reads datetime.now() secs seconds after the whole minute now; the       *)
(* target time is a whole minute.  minutes_early is kept in tenths of a    *)
(* minute here, the precision the code rounds it to.                       *)
(***************************************************************************)
MaxTracked == 1            \* start_tracking calls explored in one behaviour

\* Seconds past the minute explored: multiples of 2 s, where seconds / 60
\* never lies halfway between two tenths of a minute.
SubMinute == {0, 2, 30, 58}
TrackTargets == {1, 10, 12}
RecordTemps == {195}

\* round(seconds / 60, 1), in tenths of a minute.
RoundTenths(seconds) ==
    IF seconds >= 0 THEN RoundDiv(seconds, 6) ELSE -RoundDiv(-seconds, 6)

\* Mutant: a missed target is always recorded as late.
MinutesEarly_MissedIsLate(target_s, now_s, reached_target) ==
    IF reached_target THEN RoundTenths(target_s - now_s)
    ELSE -RoundTenths(Abs(now_s - target_s))

\* minutes_early of record_result (lines 128-133 and 143): the two branches
\* before rounding, then round(minutes_early, 1).  Times in seconds.
MinutesEarly(target_s, now_s, reached_target) ==
    IF reached_target THEN RoundTenths(target_s - now_s)
    ELSE RoundTenths(-(now_s - target_s))

\* The AnticipationResult built by record_result secs seconds after minute t.
ResultAt(pending, t, secs, current_temp, reached_target) ==
    [ResultOf(pending, t, current_temp, reached_target) EXCEPT
        !.minutes_early = MinutesEarly(60 * pending.target_time, 60 * t + secs,
                                       reached_target)]

NoRecord == [called |-> FALSE, appended |-> FALSE]

\* One call of start_tracking, for a transition at one of the target times.
StartTrackingAt ==
    /\ ~rec_call.called
    /\ periods.starts < MaxTracked
    /\ \E target_time \in TrackTargets :
         pending_start' = Some(PendingStart(now, 195, target_time, 180, 115, 0, 50))
    /\ periods' = [periods EXCEPT !.starts = @ + 1]
    /\ rec_call' = NoRecord
    /\ UNCHANGED <<engineVars, thermalVars, history, recorded, est_call, suggestion,
                   sched_call, codec_call, cycle_pc, current_session, last_off_time,
                   hvac_seen, load_call, anticipation_active, safety_margin,
                   llm_margin_adjustment, cyc, llm_call, last_llm_response, enabled,
                   reset_call, coordinators, services, svc_call>>

\* One call of record_result(current_temp, reached_target).
RecordCall ==
    /\ ~rec_call.called
    /\ \E current_temp \in RecordTemps, reached_target \in BOOLEAN, secs \in SubMinute :
         IF pending_start = None
         THEN /\ rec_call' = [called |-> TRUE, pending |-> None, returned |-> None,
                              before |-> history, appended |-> FALSE,
                              prev_appended |-> rec_call.appended,
                              reached_target |-> reached_target, at_s |-> 60 * now + secs]
              /\ UNCHANGED <<history, pending_start, recorded>>
         ELSE \E result \in {ResultAt(Val(pending_start), now, secs, current_temp,
                                       reached_target)} :
              /\ history' = AppendResult(history, result)
              /\ pending_start' = None
              /\ recorded' = recorded + 1
              /\ rec_call' = [called |-> TRUE, pending |-> pending_start,
                              returned |-> Some(result), before |-> history,
                              appended |-> TRUE, prev_appended |-> rec_call.appended,
                              reached_target |-> reached_target, at_s |-> 60 * now + secs]
    /\ UNCHANGED <<engineVars, thermalVars, est_call, suggestion, sched_call,
                   codec_call, cycle_pc, current_session, last_off_time, hvac_seen,
                   load_call, coordVars, enabled, reset_call, coordinators, services,
                   svc_call>>

\* The caller has the result (or None).
RecordReturn ==
    /\ rec_call.called
    /\ rec_call' = [called |-> FALSE, appended |-> rec_call.appended]
    /\ UNCHANGED <<engineVars, thermalVars, feedbackVars, est_call, suggestion,
                   sched_call, codec_call, cycle_pc, current_session, last_off_time,
                   hvac_seen, load_call, coordVars, enabled, reset_call, coordinators,
                   services, svc_call>>

(***************************************************************************)
(* FeedbackLoop.get_margin_suggestion.  minutes_early is in whole minutes, *)
(* the suggestion in percent of margin (MARGIN_ADJUST_STEP = 0.02 is 2).   *)
(***************************************************************************)
DEFAULT_SAFETY_MARGIN == 115   \* const.py: DEFAULT_SAFETY_MARGIN = 1.15
MARGIN_ADJUST_STEP == 2
SUGGEST_WINDOW == 10
SUGGEST_MIN_RESULTS == 3

\* Mutant: the whole history is used, not the last 10 results.
RecentResults_All(hist) == hist

\* recent = [r for r in self.history[-10:] if r.success is not None];
\* success is a bool in every result the program builds.
RecentResults(hist) == LastN(hist, SUGGEST_WINDOW)

\* Mutant: two results are taken as enough.
TooFewResults_Two(n) == n < 2

\* "if len(recent) < 3: return None"
TooFewResults(n) == n < SUGGEST_MIN_RESULTS

\* The adjustment chosen from avg_early (lines 187-209); total is the sum of
\* minutes_early over the n recent results, so avg_early > 10 is total > 10 n.
EarlyAdjustment(total, n) ==
    IF total > 10 * n THEN -(MARGIN_ADJUST_STEP * 2)
    ELSE IF total > 5 * n THEN -MARGIN_ADJUST_STEP
    ELSE IF total < 0 THEN MARGIN_ADJUST_STEP * 2
    ELSE IF total < 2 * n THEN MARGIN_ADJUST_STEP
    ELSE 0

\* Mutant: the adjustments of the recent results are added up.
GetMarginSuggestion_Accumulates(hist) ==
    LET recent == RecentResults(hist)
        n == Len(recent)
    IN  IF TooFewResults(n) THEN None
        ELSE Some(SumSeq([i \in 1..n |-> EarlyAdjustment(recent[i].minutes_early, 1)]))

\* get_margin_suggestion(): None, or the adjustment after the success-rate
\* floor (success_rate < 0.7 is 10 * successes < 7 * n).
GetMarginSuggestion(hist) ==
    LET recent == RecentResults(hist)
        n == Len(recent)
        total == SumSeq([i \in 1..n |-> recent[i].minutes_early])
        successes == Cardinality({i \in 1..n : recent[i].success})
        adjustment == EarlyAdjustment(total, n)
    IN  IF TooFewResults(n) THEN None
        ELSE IF 10 * successes < 7 * n
             THEN Some(Max(adjustment, MARGIN_ADJUST_STEP * 2))
             ELSE Some(adjustment)

\* A result as load_history builds it from stored data (from_dict).
StoredResult(minutes_early, success) ==
    [date |-> 0,
     target_temp |-> 195,
     actual_temp_at_target_time |-> IF success THEN 195 ELSE 185,
     temp_at_start |-> 180,
     target_time |-> 0,
     actual_arrival_time |-> IF success THEN Some(0) ELSE None,
     minutes_early |-> minutes_early,
     margin_used |-> 115,
     llm_adjustment |-> 0,
     ext_temp_avg |-> 50,
     success |-> success]

\* The kinds of result a stored history is made of here: on each side of the
\* 10, 5, 2 and 0 minute thresholds and on them, reached and not reached.
MaxStored == 11

ResultKinds ==
    <<StoredResult(13, TRUE), StoredResult(10, TRUE), StoredResult(5, TRUE),
      StoredResult(2, TRUE), StoredResult(0, TRUE), StoredResult(-3, FALSE),
      StoredResult(6, FALSE)>>

Repeat(x, n) == [i \in 1..n |-> x]

\* The history made of c[k] results of the k-th kind, each kind in one run.
RunsOfKinds(c) ==
    Repeat(ResultKinds[1], c[1]) \o Repeat(ResultKinds[2], c[2])
        \o Repeat(ResultKinds[3], c[3]) \o Repeat(ResultKinds[4], c[4])
        \o Repeat(ResultKinds[5], c[5]) \o Repeat(ResultKinds[6], c[6])
        \o Repeat(ResultKinds[7], c[7])

Reverse(q) == [i \in 1..Len(q) |-> q[Len(q) + 1 - i]]

\* load_history(data): the stored list replaces the history.  Called once,
\* from the coordinator's _load_data.  The stored list holds at most
\* MaxStored results, in runs of one kind, oldest kind first or last.
LoadHistory ==
    /\ history = << >>
    /\ ~suggestion.called
    /\ \E c1 \in 0..MaxStored : \E c2 \in 0..(MaxStored - c1) :
       \E c3 \in 0..(MaxStored - c1 - c2) :
       \E c4 \in 0..(MaxStored - c1 - c2 - c3) :
       \E c5 \in 0..(MaxStored - c1 - c2 - c3 - c4) :
       \E c6 \in 0..(MaxStored - c1 - c2 - c3 - c4 - c5) :
       \E c7 \in 0..(MaxStored - c1 - c2 - c3 - c4 - c5 - c6) :
       \E newest_first \in BOOLEAN :
         LET data == RunsOfKinds(<<c1, c2, c3, c4, c5, c6, c7>>)
         IN  /\ data # << >>
             /\ history' = IF newest_first THEN Reverse(data) ELSE data
    /\ UNCHANGED <<engineVars, thermalVars, pending_start, recorded, queryVars, coordVars>>

\* One call of get_margin_suggestion on the current history.
Suggest ==
    /\ ~suggestion.called
    /\ suggestion' = [called |-> TRUE, value |-> GetMarginSuggestion(history)]
    /\ UNCHANGED <<engineVars, thermalVars, feedbackVars, est_call, coordVars, sched_call,
                   codec_call, cycle_pc, current_session, last_off_time, hvac_seen,
                   load_call, rec_call, enabled, reset_call, coordinators, services,
                   svc_call>>

\* The caller has taken the suggestion; the next call can be made.
SuggestReturn ==
    /\ suggestion.called
    /\ suggestion' = [called |-> FALSE]
    /\ UNCHANGED <<engineVars, thermalVars, feedbackVars, est_call, coordVars, sched_call,
                   codec_call, cycle_pc, current_session, last_off_time, hvac_seen,
                   load_call, rec_call, enabled, reset_call, coordinators, services,
                   svc_call>>

(***************************************************************************)
(* Actions of the engine                                                   *)
(***************************************************************************)
\* One call of async_evaluate, as made by the coordinator's update.
Evaluate ==
    /\ ~ev.called
    /\ \E temp_indoor \in IndoorTemps, minutes_needed \in MinutesNeeded,
          next_consigne \in Consignes, is_anti_cycle_active \in BOOLEAN,
          target_time \in TargetTimes(now) :
         LET eng == CurrentEngine
             decides == ReachesDecision(eng, temp_indoor, minutes_needed,
                                        next_consigne, is_anti_cycle_active)
         IN
         \E current_sched \in
               (IF ReadsSchedule(eng, temp_indoor, minutes_needed, next_consigne,
                                 is_anti_cycle_active, target_time)
                THEN ScheduleStates ELSE {None}),
            climate_setpoint \in
               (IF ReadsClimate(eng, temp_indoor, minutes_needed, next_consigne,
                                is_anti_cycle_active)
                THEN ClimateSetpoints ELSE {None}),
            ok \in (IF decides THEN BOOLEAN ELSE {TRUE}) :
           LET out == AsyncEvaluate(eng, now, temp_indoor, minutes_needed, next_consigne,
                                    is_anti_cycle_active, target_time,
                                    current_sched, climate_setpoint, ok)
           IN  /\ state' = out.eng.state
               /\ last_consigne_sent' = out.eng.sent
               /\ last_consigne_sent_time' = out.eng.sent_time
               /\ ev' = [called |-> TRUE,
                         at |-> now,
                         pre |-> eng,
                         temp_indoor |-> temp_indoor,
                         minutes_needed |-> minutes_needed,
                         next_consigne |-> next_consigne,
                         is_anti_cycle_active |-> is_anti_cycle_active,
                         target_time |-> target_time,
                         current_sched |-> current_sched,
                         climate_setpoint |-> climate_setpoint,
                         attempts |-> out.attempts,
                         ok |-> (out.attempts = << >> \/ ok)]
               /\ UNCHANGED <<now, ticks, thermalVars, feedbackVars, queryVars, coordVars>>

\* The schedule-change handler's call of anticipation._deactivate().
ScheduleDrop ==
    /\ ~ev.called
    /\ state.active
    /\ state' = Deactivate(CurrentEngine).state
    /\ last_consigne_sent' = None
    /\ last_consigne_sent_time' = None
    /\ UNCHANGED <<now, ticks, ev, thermalVars, feedbackVars, queryVars, coordVars>>

\* The caller has taken the returned state; the next call can be made.
Return ==
    /\ ev.called
    /\ ev' = NoEval
    /\ UNCHANGED <<state, last_consigne_sent, last_consigne_sent_time, now, ticks,
                   thermalVars, feedbackVars, queryVars, coordVars>>

\* Time passes between two calls.
Tick ==
    /\ ~ev.called
    /\ ticks < MaxTicks
    /\ \E d \in TickSteps : now' = now + d
    /\ ticks' = ticks + 1
    /\ UNCHANGED <<state, last_consigne_sent, last_consigne_sent_time, ev,
                   thermalVars, feedbackVars, queryVars, coordVars>>

(***************************************************************************)
(* SmartHeatingCoordinator: the control cycle (_async_update_data) and the *)
(* schedule-change handler.  Margins are integers in percent.              *)
(***************************************************************************)
MaxPeriods == 2        \* Active periods explored in one behaviour
MIN_SESSIONS == 3      \* const.py: DEFAULT_MIN_SESSIONS
HEATING_UP_BAND == 3   \* schedule_parser.py: current_temp_schedule + 0.3
REACHED_TARGET_BAND == 3  \* coordinator.py: next_consigne - 0.3

\* Inputs of a cycle: the indoor and outdoor sensors and the schedule
\* entity's state; the transition the schedule parser then reports.
CycleIndoor == {None, Some(180), Some(194)}
CycleIndoorWhileActive == CycleIndoor \cup {Some(196)}
CycleOutdoor == {None, Some(50)}
CycleSchedule == {None, Some(160)}
CycleLeads == {20}        \* minutes from now to the next transition
CycleTargets == {195, 210}

\* NextTransition(target_time, target_temp, current_temp_schedule, source)
NextTransition(target_time, target_temp, current_temp_schedule) ==
    [target_time |-> target_time,
     target_temp |-> target_temp,
     current_temp_schedule |-> current_temp_schedule]

\* get_next_heating_transition(): None when the schedule entity has no
\* numeric state, a parsed transition, or the "current_only" fall-back.
Transitions(t, sched) ==
    IF sched = None THEN {None}
    ELSE {Some(NextTransition(None, Val(sched), Val(sched)))}
            \cup {Some(NextTransition(Some(t + lead), temp, Val(sched))) :
                    lead \in CycleLeads, temp \in CycleTargets}

\* NextTransition.is_heating_up
IsHeatingUp(tr) == tr.target_temp > tr.current_temp_schedule + HEATING_UP_BAND

\* "x or 0.0" on a float | None.
OrZero(o) == IF Truthy(o) THEN Val(o) ELSE 0

\* Mutant: the feedback suggestion is left out of the effective margin.
EffectiveMargin_NoFeedback(base, llm, feedback_adj) == base + llm

\* effective_margin = self.safety_margin + self._llm_margin_adjustment + feedback_adj
EffectiveMargin(base, llm, feedback_adj) == base + llm + feedback_adj

\* The result of _calculate_anticipation that the cycle reads, with the
\* margin it handed to the estimate (None when no estimate was asked for).
Calculation(minutes_needed, next_consigne, margin) ==
    [minutes_needed |-> minutes_needed, next_consigne |-> next_consigne, margin |-> margin]

\* Mutant: with too few sessions half an hour is assumed.
CalculateAnticipation_AssumesHalfHour(ss, inr, hist, base, llm, temp_indoor, temp_outdoor, next_transition, sched) ==
    IF temp_indoor = None \/ temp_outdoor = None THEN Calculation(None, None, None)
    ELSE IF next_transition # None /\ IsHeatingUp(Val(next_transition))
              /\ Val(next_transition).target_temp > Val(temp_indoor)
         THEN Calculation(Some(30), Some(Val(next_transition).target_temp), Some(base))
         ELSE Calculation(None, None, None)

\* _calculate_anticipation(temp_indoor, temp_outdoor, next_transition);
\* sched is the schedule entity's state read by _get_schedule_consigne.
CalculateAnticipation(ss, inr, hist, base, llm, temp_indoor, temp_outdoor, next_transition, sched) ==
    IF temp_indoor = None \/ temp_outdoor = None THEN Calculation(None, None, None)
    ELSE IF Len(ss) < MIN_SESSIONS THEN Calculation(None, None, None)
    ELSE LET next_consigne ==
                 IF next_transition # None /\ IsHeatingUp(Val(next_transition))
                 THEN Some(Val(next_transition).target_temp)
                 ELSE IF sched # None /\ Val(sched) > Val(temp_indoor) + DELTA_MIN
                      THEN sched
                      ELSE None
         IN  IF next_consigne = None \/ Val(next_consigne) <= Val(temp_indoor)
             THEN Calculation(None, None, None)
             ELSE LET feedback_adj == OrZero(GetMarginSuggestion(hist))
                      effective_margin == EffectiveMargin(base, llm, feedback_adj)
                      minutes_needed ==
                          EstimateTimeToTarget(ss, inr, Val(temp_indoor), Val(next_consigne),
                                               Val(temp_outdoor), effective_margin).result
                  IN  IF minutes_needed = None
                      THEN Calculation(None, None, Some(effective_margin))
                      ELSE Calculation(minutes_needed, next_consigne, Some(effective_margin))

\* "if not was_active and anticipation_state.active and temp_indoor is not None"
TrackingStarts(was_active, active, temp_indoor) ==
    ~was_active /\ active /\ temp_indoor # None

\* "if was_active and not anticipation_state.active and temp_indoor is not None"
TrackingEnds(was_active, active, temp_indoor) ==
    was_active /\ ~active /\ temp_indoor # None

\* reached_target as passed to record_result (lines 246-249).
ReachedTarget(next_consigne, temp_indoor) ==
    next_consigne # None /\ Val(temp_indoor) >= Val(next_consigne) - REACHED_TARGET_BAND

NoCycle == [called |-> FALSE]

\* Mutant: the cycle does not look at the switch.
ZoneDisabled_SwitchIgnored == FALSE

\* "if not self.enabled": the cycle returns at once.
ZoneDisabled == ~enabled

\* The session tracking had nothing to do.
NotTracked == [ran |-> FALSE]

\* Nothing has been read of hvac_action yet.  paused is the time of the
\* first cycle since the open session was started at which the actuator was
\* not heating, if there is one.
NoHvacSeen == [was_heating |-> FALSE, off_seen |-> None, paused |-> None]

\* _async_update_data from the schedule lookup on (lines 197-262), for the
\* thermal model (ss, inr) and the anti-cycle verdict that the session
\* tracking at its head has left; tracked is what that tracking was given
\* and found, kept in cyc.
CycleBody(ss, inr, temp_indoor, temp_outdoor, sched, is_anti_cycle_active, tracked) ==
    /\ \E next_transition \in Transitions(now, sched) :
       \E calc \in {CalculateAnticipation(ss, inr, history, safety_margin,
                                          llm_margin_adjustment, temp_indoor,
                                          temp_outdoor, next_transition, sched)} :
       \E suggested \in {GetMarginSuggestion(history)} :
       \E out \in {AsyncEvaluate(CurrentEngine, now, temp_indoor, calc.minutes_needed,
                                 calc.next_consigne, is_anti_cycle_active,
                                 IF next_transition # None
                                 THEN Val(next_transition).target_time ELSE None,
                                 sched, None, TRUE)} :
         LET feedback_adjustment == OrZero(suggested)
             effective_margin == EffectiveMargin(safety_margin, llm_margin_adjustment,
                                                 feedback_adjustment)
             st == out.eng.state
             was_active == anticipation_active
             starts == TrackingStarts(was_active, st.active, temp_indoor)
             ends == TrackingEnds(was_active, st.active, temp_indoor)
             appends == ends /\ pending_start # None
             begun == IF ~state.active /\ st.active THEN 1 ELSE 0
             ended == IF state.active /\ ~st.active THEN 1 ELSE 0
         IN  /\ periods.begun + begun <= MaxPeriods
             /\ state' = st
             /\ last_consigne_sent' = out.eng.sent
             /\ last_consigne_sent_time' = out.eng.sent_time
             /\ anticipation_active' = st.active
             /\ pending_start' =
                   IF starts
                   THEN Some(PendingStart(now, OrZero(st.target_consigne),
                                          IF st.target_time # None
                                          THEN Val(st.target_time) ELSE now,
                                          Val(temp_indoor), effective_margin,
                                          llm_margin_adjustment, OrZero(temp_outdoor)))
                   ELSE IF ends THEN None
                   ELSE pending_start
             /\ history' =
                   IF appends
                   THEN AppendResult(history,
                            ResultOf(Val(pending_start), now, Val(temp_indoor),
                                     ReachedTarget(calc.next_consigne, temp_indoor)))
                   ELSE history
             /\ recorded' = IF appends THEN recorded + 1 ELSE recorded
             /\ periods' = [begun |-> periods.begun + begun,
                            ended |-> periods.ended + ended,
                            starts |-> periods.starts + (IF starts THEN 1 ELSE 0),
                            appends |-> periods.appends + (IF appends THEN 1 ELSE 0)]
             /\ cyc' = [called |-> TRUE,
                        suggested |-> suggested,
                        estimate_margin |-> calc.margin,
                        effective_margin |-> effective_margin,
                        started |-> starts,
                        appended |-> appends,
                        dropped |-> anticipation_active /\ ~state.active,
                        begun |-> begun = 1,
                        ended |-> ended = 1,
                        temp_indoor |-> temp_indoor,
                        period_target |-> state.target_consigne,
                        attempts |-> out.attempts,
                        minutes_needed |-> calc.minutes_needed,
                        tracked |-> tracked]
    /\ UNCHANGED <<now, ticks, ev, est_call, suggestion, sched_call, codec_call,
                   cycle_pc, safety_margin, llm_margin_adjustment, llm_call,
                   last_llm_response, load_call, rec_call, enabled, reset_call,
                   coordinators, services, svc_call>>

\* One run of _async_update_data with the zone enabled and no heating
\* session in progress (hvac_action is not "heating", so
\* _track_heating_session does nothing).
UpdateData ==
    /\ ~ZoneDisabled
    /\ ~cyc.called
    /\ ~cycle_pc.at_await
    /\ \E temp_indoor \in (IF state.active THEN CycleIndoorWhileActive ELSE CycleIndoor),
          temp_outdoor \in CycleOutdoor,
          sched \in CycleSchedule,
          is_anti_cycle_active \in (IF state.active THEN {FALSE} ELSE BOOLEAN) :
         CycleBody(sessions, inertia, temp_indoor, temp_outdoor, sched,
                   is_anti_cycle_active, NotTracked)
    /\ UNCHANGED <<thermalVars, current_session, last_off_time, hvac_seen, reset_call,
                   coordinators, services, svc_call>>

\* The cycle's data has been handed to the entities; the next can run.
UpdateReturn ==
    /\ cyc.called
    /\ cyc' = NoCycle
    /\ UNCHANGED <<engineVars, thermalVars, feedbackVars, queryVars,
                   anticipation_active, safety_margin, llm_margin_adjustment, periods,
                   llm_call, last_llm_response>>

(***************************************************************************)
(* Heating sessions and the anti-short-cycle gate.  Durations in whole     *)
(* minutes, as the clock.                                                  *)
(***************************************************************************)
MIN_SESSION_DURATION == 5      \* MIN_SESSION_DURATION_SEC = 300
MIN_SESSION_DELTA_TEMP == 3    \* 0.3 degC
warmup_ignore_min == 0         \* DEFAULT_WARMUP_IGNORE_MIN
anti_short_cycle == TRUE       \* the zone is configured with the gate on
min_off_time == 10             \* the configured minimum off time, in minutes

HvacActions == {"heating", "idle"}
TrackedOutdoor == {Some(50)}
TrackedSchedule == {Some(160)}

\* self._current_session as _track_heating_session creates it (the points
\* are never read back).
StartedSession(t, temp_indoor, temp_outdoor) ==
    [start_time |-> t, temp_start |-> temp_indoor, temp_ext_start |-> temp_outdoor]

\* What the tracking leaves: the session in progress, the last off time and
\* the thermal model's sessions.
Tracked(cs, lo, ss) == [current_session |-> cs, last_off_time |-> lo, sessions |-> ss]

\* The outdoor temperatures averaged by _end_session.
ExtTemps(session, temp_outdoor) ==
    (IF session.temp_ext_start # None THEN <<Val(session.temp_ext_start)>> ELSE << >>)
        \o (IF temp_outdoor # None THEN <<Val(temp_outdoor)>> ELSE << >>)

\* _end_session(temp_indoor, temp_outdoor) at time t; anticipated is
\* self._anticipation_active as the previous cycle left it.
EndSession(cs, lo, ss, anticipated, t, temp_indoor, temp_outdoor) ==
    IF cs = None \/ temp_indoor = None THEN Tracked(None, lo, ss)
    ELSE LET session == Val(cs)
             duration == t - session.start_time
             delta_temp == Val(temp_indoor) - session.temp_start
             effective_duration == Max(0, duration - warmup_ignore_min)
             ext_temps == ExtTemps(session, temp_outdoor)
             temp_ext_avg == IF ext_temps # << >>
                             THEN RoundDiv(SumSeq(ext_temps), Len(ext_temps)) ELSE 0
         IN  IF \/ duration < MIN_SESSION_DURATION
                \/ delta_temp < MIN_SESSION_DELTA_TEMP
                \/ effective_duration <= 0
             THEN Tracked(None, Some(t), ss)
             ELSE Tracked(None, Some(t),
                      AddSessionTo(ss,
                          [date |-> t,
                           temp_start |-> session.temp_start,
                           temp_end |-> Val(temp_indoor),
                           temp_ext_avg |-> temp_ext_avg,
                           delta_temp |-> delta_temp,
                           duration_min |-> 10 * duration,
                           speed_degc_per_min |->
                               RoundDiv(delta_temp * 10000, effective_duration),
                           anticipated |-> anticipated]))

\* _track_heating_session(hvac_action, temp_indoor, temp_outdoor) at time t.
TrackHeatingSession(cs, lo, ss, anticipated, t, hvac_action, temp_indoor, temp_outdoor) ==
    IF hvac_action = "heating" /\ cs = None
    THEN IF temp_indoor # None
         THEN Tracked(Some(StartedSession(t, Val(temp_indoor), temp_outdoor)), lo, ss)
         ELSE Tracked(cs, lo, ss)
    ELSE IF hvac_action = "heating" THEN Tracked(cs, lo, ss)
    ELSE IF cs # None
         THEN EndSession(cs, lo, ss, anticipated, t, temp_indoor, temp_outdoor)
         ELSE Tracked(cs, lo, ss)

\* _is_anti_cycle_active() at time t.
IsAntiCycleActive(lo, t) ==
    IF ~anti_short_cycle \/ lo = None THEN FALSE
    ELSE t - Val(lo) < min_off_time

\* One run of _async_update_data with the zone enabled, whatever the
\* actuator is doing: the session tracking, then the rest of the cycle with
\* the thermal model and the anti-cycle verdict the tracking has left.  The
\* outdoor sensor and the schedule entity give one of the values of outdoors
\* and scheds.
TrackedCycle(outdoors, scheds) ==
    /\ ~ZoneDisabled
    /\ ~cyc.called
    /\ ~cycle_pc.at_await
    /\ \E hvac_action \in HvacActions,
          temp_indoor \in CycleIndoor,
          temp_outdoor \in outdoors,
          sched \in scheds :
       \E tr \in {TrackHeatingSession(current_session, last_off_time, sessions,
                                      anticipation_active, now, hvac_action,
                                      temp_indoor, temp_outdoor)} :
       \E inr \in {IF tr.sessions # sessions THEN Recalculate(tr.sessions) ELSE inertia} :
         /\ current_session' = tr.current_session
         /\ last_off_time' = tr.last_off_time
         /\ sessions' = tr.sessions
         /\ inertia' = inr
         /\ added' = IF tr.sessions # sessions THEN added + 1 ELSE added
         /\ hvac_seen' = [was_heating |-> hvac_action = "heating",
                          off_seen |-> IF hvac_seen.was_heating /\ hvac_action # "heating"
                                       THEN Some(now) ELSE hvac_seen.off_seen,
                          paused |-> IF tr.current_session # None
                                     THEN hvac_seen.paused ELSE None]
         /\ CycleBody(tr.sessions, inr, temp_indoor, temp_outdoor, sched,
                      IsAntiCycleActive(tr.last_off_time, now),
                      [ran |-> TRUE, hvac_action |-> hvac_action,
                       temp_outdoor |-> temp_outdoor, session |-> current_session,
                       sessions |-> sessions, inertia |-> inertia,
                       paused |-> hvac_seen.paused])

\* The cycle of a zone with a schedule and an outdoor sensor that answer.
UpdateDataTracked == TrackedCycle(TrackedOutdoor, TrackedSchedule)

\* The state of a sensor entity: its text, and the number float() makes of
\* it (None when float() raises).  None is an entity without a state.
SensorState(text, num) == Some([text |-> text, num |-> num])
OutdoorStates ==
    {None, SensorState("unavailable", None), SensorState("unknown", None),
     SensorState("n/a", None), SensorState("5.0", Some(50))}

\* _get_float_state(entity_id)
GetFloatState(st) ==
    IF st = None \/ Val(st).text \in {"unavailable", "unknown"} THEN None
    ELSE Val(st).num

\* The cycle of a zone whose schedule entity has no numeric state, so that
\* there is no transition to anticipate; the outdoor sensor may be down.
UpdateDataUnscheduled ==
    TrackedCycle({GetFloatState(st) : st \in OutdoorStates}, {None})

\* What a cycle for a disabled zone is compared with: the fields it could
\* have written.
ZoneFields ==
    [state |-> state, sent |-> last_consigne_sent, sent_time |-> last_consigne_sent_time,
     anticipation_active |-> anticipation_active, current_session |-> current_session,
     sessions |-> sessions, inertia |-> inertia, last_off_time |-> last_off_time,
     pending_start |-> pending_start, history |-> history]

\* One run of _async_update_data with the zone disabled: the early return of
\* lines 182-188, before any sensor is read; hvac_action is what the
\* actuator is doing meanwhile.
UpdateDisabled ==
    /\ ZoneDisabled
    /\ ~cyc.called
    /\ ~cycle_pc.at_await
    /\ \E hvac_action \in HvacActions :
         /\ cyc' = [called |-> TRUE, hvac_action |-> hvac_action, attempts |-> << >>,
                    before |-> ZoneFields, begun |-> FALSE, tracked |-> NotTracked]
         /\ hvac_seen' = [hvac_seen EXCEPT
                             !.paused = IF /\ current_session # None
                                           /\ hvac_action # "heating"
                                           /\ @ = None
                                        THEN Some(now) ELSE @]
    /\ UNCHANGED <<engineVars, thermalVars, feedbackVars, est_call, suggestion,
                   sched_call, codec_call, cycle_pc, current_session, last_off_time,
                   load_call, rec_call, enabled,
                   anticipation_active, safety_margin, llm_margin_adjustment, periods,
                   llm_call, last_llm_response, reset_call, coordinators, services,
                   svc_call>>

\* SmartHeatingEnabledSwitch.async_turn_on / async_turn_off.
SetEnabled ==
    /\ ~cyc.called
    /\ \E on \in BOOLEAN : enabled' = on
    /\ UNCHANGED <<engineVars, thermalVars, feedbackVars, est_call, suggestion,
                   sched_call, codec_call, cycle_pc, current_session, last_off_time,
                   hvac_seen, load_call, rec_call, coordVars, reset_call, coordinators,
                   services, svc_call>>

NoReset == [called |-> FALSE, done |-> FALSE]

\* _handle_reset_sessions(call): the sessions are cleared, the statistics
\* recomputed and the file saved; the refresh it requests is a later cycle.
HandleResetSessions ==
    /\ ~cyc.called
    /\ ~reset_call.called
    /\ sessions' = << >>
    /\ inertia' = Recalculate(<< >>)
    /\ reset_call' = [called |-> TRUE, done |-> TRUE]
    /\ UNCHANGED <<engineVars, added, feedbackVars, est_call, suggestion, sched_call,
                   codec_call, cycle_pc, current_session, last_off_time, hvac_seen,
                   load_call, rec_call, enabled, coordVars, coordinators, services,
                   svc_call>>

\* The service call has returned.
ResetReturn ==
    /\ reset_call.called
    /\ reset_call' = [reset_call EXCEPT !.called = FALSE]
    /\ UNCHANGED <<engineVars, thermalVars, feedbackVars, est_call, suggestion,
                   sched_call, codec_call, cycle_pc, current_session, last_off_time,
                   hvac_seen, load_call, rec_call, enabled, coordVars, coordinators,
                   services, svc_call>>

\* _on_schedule_change(event): a drop of the schedule entity's state by more
\* than 0.1 deactivates an active engine; the flag _anticipation_active and
\* the feedback loop are not touched.  The refresh it requests is a later
\* UpdateData.
OnScheduleChange ==
    /\ ~cyc.called
    /\ \E old_val \in {160, 200}, new_val \in {160, 200} :
         IF Abs(new_val - old_val) > 1 /\ new_val < old_val /\ state.active
         THEN /\ state' = Deactivate(CurrentEngine).state
              /\ last_consigne_sent' = Deactivate(CurrentEngine).sent
              /\ last_consigne_sent_time' = Deactivate(CurrentEngine).sent_time
              /\ periods' = [periods EXCEPT !.ended = @ + 1]
              /\ UNCHANGED <<now, ticks, ev, thermalVars, feedbackVars, queryVars,
                             anticipation_active, safety_margin,
                             llm_margin_adjustment, cyc, llm_call, last_llm_response>>
         ELSE UNCHANGED vars

\* The margin values set through the number entity while a cycle waits.
MarginValues == {100, 130}

\* SafetyMarginNumber.async_set_native_value(value): value is in percent; the
\* refresh it requests is a later cycle.
SetMargin ==
    /\ \E value \in MarginValues : safety_margin' = value
    /\ UNCHANGED <<engineVars, thermalVars, feedbackVars, queryVars,
                   anticipation_active, llm_margin_adjustment, cyc, periods,
                   llm_call, last_llm_response>>

\* A cycle that sends a setpoint, up to the await of the service call in
\* _send_consigne: the engine's state is already assigned, the send
\* bookkeeping is not yet.  The cycle's local values are kept for its
\* resumption, together with what it has read and written so far.
UpdateSuspend ==
    /\ ~ZoneDisabled
    /\ ~cyc.called
    /\ ~cycle_pc.at_await
    /\ \E temp_indoor \in (IF state.active THEN CycleIndoorWhileActive ELSE CycleIndoor),
          temp_outdoor \in CycleOutdoor,
          sched \in CycleSchedule,
          is_anti_cycle_active \in (IF state.active THEN {FALSE} ELSE BOOLEAN),
          ok \in BOOLEAN :
       \E next_transition \in Transitions(now, sched) :
       \E calc \in {CalculateAnticipation(sessions, inertia, history, safety_margin,
                                          llm_margin_adjustment, temp_indoor,
                                          temp_outdoor, next_transition, sched)} :
       \E out \in {AsyncEvaluate(CurrentEngine, now, temp_indoor, calc.minutes_needed,
                                 calc.next_consigne, is_anti_cycle_active,
                                 IF next_transition # None
                                 THEN Val(next_transition).target_time ELSE None,
                                 sched, None, FALSE)} :
         LET begun == IF ~state.active /\ out.eng.state.active THEN 1 ELSE 0
         IN  /\ out.attempts # << >>
             /\ periods.begun + begun <= MaxPeriods
             /\ state' = out.eng.state
             /\ periods' = [periods EXCEPT !.begun = @ + begun]
             /\ cycle_pc' = [at_await |-> TRUE,
                             temperature |-> out.attempts[1],
                             sent_at |-> now,
                             ok |-> ok,
                             temp_indoor |-> temp_indoor,
                             temp_outdoor |-> temp_outdoor,
                             next_consigne |-> calc.next_consigne,
                             estimate_margin |-> calc.margin,
                             suggested |-> GetMarginSuggestion(history),
                             effective_margin |->
                                 EffectiveMargin(safety_margin, llm_margin_adjustment,
                                                 OrZero(GetMarginSuggestion(history))),
                             state |-> out.eng.state,
                             safety_margin |-> safety_margin,
                             llm_margin_adjustment |-> llm_margin_adjustment]
    /\ UNCHANGED <<last_consigne_sent, last_consigne_sent_time, now, ticks, ev,
                   thermalVars, feedbackVars, est_call, suggestion, sched_call,
                   codec_call, anticipation_active, safety_margin,
                   llm_margin_adjustment, cyc, llm_call, last_llm_response, current_session,
                   last_off_time, hvac_seen, load_call, rec_call, enabled, reset_call,
                   coordinators, services, svc_call>>

\* The service call returns: _send_consigne does its bookkeeping,
\* async_evaluate returns self.state as it is now, and _async_update_data
\* goes on with the feedback tracking.
UpdateResume ==
    /\ cycle_pc.at_await
    /\ LET st == state
           temp_indoor == cycle_pc.temp_indoor
           was_active == anticipation_active
           starts == TrackingStarts(was_active, st.active, temp_indoor)
           ends == TrackingEnds(was_active, st.active, temp_indoor)
           appends == ends /\ pending_start # None
       IN  /\ last_consigne_sent' =
                 IF cycle_pc.ok THEN Some(cycle_pc.temperature) ELSE last_consigne_sent
           /\ last_consigne_sent_time' =
                 IF cycle_pc.ok THEN Some(cycle_pc.sent_at) ELSE last_consigne_sent_time
           /\ anticipation_active' = st.active
           /\ pending_start' =
                 IF starts
                 THEN Some(PendingStart(now, OrZero(st.target_consigne),
                                        IF st.target_time # None
                                        THEN Val(st.target_time) ELSE now,
                                        Val(temp_indoor), cycle_pc.effective_margin,
                                        llm_margin_adjustment,
                                        OrZero(cycle_pc.temp_outdoor)))
                 ELSE IF ends THEN None
                 ELSE pending_start
           /\ history' =
                 IF appends
                 THEN AppendResult(history,
                          ResultOf(Val(pending_start), now, Val(temp_indoor),
                                   ReachedTarget(cycle_pc.next_consigne, temp_indoor)))
                 ELSE history
           /\ recorded' = IF appends THEN recorded + 1 ELSE recorded
           /\ periods' = [periods EXCEPT
                             !.starts = @ + (IF starts THEN 1 ELSE 0),
                             !.appends = @ + (IF appends THEN 1 ELSE 0)]
           /\ cyc' = [called |-> TRUE,
                      suggested |-> cycle_pc.suggested,
                      estimate_margin |-> cycle_pc.estimate_margin,
                      effective_margin |-> cycle_pc.effective_margin,
                      started |-> starts,
                      appended |-> appends,
                      ended |-> FALSE,
                      temp_indoor |-> temp_indoor,
                      period_target |-> None]
           /\ cycle_pc' = [at_await |-> FALSE]
    /\ UNCHANGED <<state, now, ticks, ev, thermalVars, est_call, suggestion,
                   sched_call, codec_call, safety_margin, llm_margin_adjustment,
                   llm_call, last_llm_response, current_session, last_off_time,
                   hvac_seen, load_call, rec_call, enabled, reset_call, coordinators,
                   services, svc_call>>

\* The handlers that the event loop can run while the cycle is suspended.
ScheduleChangeDuringSend == cycle_pc.at_await /\ OnScheduleChange

SetMarginDuringSend == cycle_pc.at_await /\ SetMargin

(***************************************************************************)
(* The advisor: LLMProvider._parse_response, NoneProvider and the          *)
(* coordinator's _call_llm and _load_data.  Adjustments are in percent.    *)
(***************************************************************************)
ADJUST_MIN == -15      \* llm/base.py: max(-0.15, ...)
ADJUST_MAX == 20       \* llm/base.py: min(0.20, ...)

\* Mutant: only the upper end is clamped.
ClampAdjustment_UpperOnly(x) == IF x > ADJUST_MAX THEN ADJUST_MAX ELSE x

\* max(-0.15, min(0.20, x))
ClampAdjustment(x) ==
    LET upper == IF x < ADJUST_MAX THEN x ELSE ADJUST_MAX
    IN  IF upper > ADJUST_MIN THEN upper ELSE ADJUST_MIN

\* An LLMResponse: error is None by default, else the text of the error.
LLMResponse(margin_adjustment, error) ==
    [margin_adjustment |-> margin_adjustment, error |-> error]

\* _parse_response(raw): raw is the backend's text, here what json.loads makes
\* of it: "garbage" (not JSON, or a margin that float() rejects), or an
\* object whose margin_adjustment is a number or is missing (then 0).
ParseResponse(raw) ==
    IF raw.kind = "garbage" THEN LLMResponse(0, Some("Parse error"))
    ELSE LLMResponse(ClampAdjustment(IF raw.margin = None THEN 0 ELSE Val(raw.margin)),
                     None)

\* NoneProvider.async_get_adjustment: the outdoor-temperature bands, then the
\* forecast bonus, then the clamp.  temp_ext is in tenths of a degree.
NoneProviderAdjustment(temp_ext, forecast) ==
    LET adj == IF temp_ext < -50 THEN 10
               ELSE IF temp_ext < 0 THEN 5
               ELSE IF temp_ext < 50 THEN 0
               ELSE IF temp_ext < 120 THEN -3
               ELSE -5
        bonus == IF forecast = "snowy" THEN 5
                 ELSE IF forecast = "windy" THEN 3
                 ELSE 0
    IN  LLMResponse(ClampAdjustment(adj + bonus), None)

\* What a backend can answer, and what a stored file can hold.
RawAdjustments == {-90, -16, -15, 0, 20, 21, 90}
RawAnswers ==
    {[kind |-> "garbage"], [kind |-> "json", margin |-> None]}
        \cup {[kind |-> "json", margin |-> Some(v)] : v \in RawAdjustments}
AdvisorOutdoor == {-60, -10, 20, 80, 150}
Forecasts == {"none", "snowy", "windy"}
PersistedAdjustments == {-15, 0, 20, 50}

\* str(e) of an exception caught inside a provider: asyncio.TimeoutError and
\* other exceptions raised without arguments have the empty text.
ErrorTexts == {"", "Connection error"}

\* "except Exception as e: return LLMResponse(error=str(e), ...)": the
\* adjustment keeps the dataclass default 0.0.
FailureResponse(text) == LLMResponse(0, Some(text))

\* The responses async_get_adjustment can return to _call_llm (None stands
\* for an exception escaping the provider).
AdvisorResponses ==
    {None}
        \cup {Some(FailureResponse(text)) : text \in ErrorTexts}
        \cup {Some(ParseResponse(raw)) : raw \in RawAnswers}
        \cup {Some(NoneProviderAdjustment(t, f)) : t \in AdvisorOutdoor, f \in Forecasts}

\* "if response.error:" -- the truth value of an Optional[str].
ErrorIsSet(error) == error # None /\ Val(error) # ""

\* _call_llm(context): skipped when the advisor switch is off; a response
\* whose error is not set replaces the stored response and adjustment and is
\* saved.
CallLlm ==
    /\ ~llm_call.called
    /\ \E llm_enabled \in BOOLEAN, response \in AdvisorResponses :
         LET accepted == llm_enabled /\ response # None /\ ~ErrorIsSet(Val(response).error)
         IN  /\ llm_margin_adjustment' =
                   IF accepted THEN Val(response).margin_adjustment
                   ELSE llm_margin_adjustment
             /\ last_llm_response' = IF accepted THEN response ELSE last_llm_response
             /\ llm_call' = [called |-> TRUE,
                             enabled |-> llm_enabled,
                             accepted |-> accepted,
                             saved |-> accepted,
                             response |-> response,
                             before |-> llm_margin_adjustment,
                             before_response |-> last_llm_response]
    /\ UNCHANGED <<engineVars, thermalVars, feedbackVars, queryVars,
                   anticipation_active, safety_margin, cyc, periods>>

\* The advisor call is over; the next one can be made.
CallLlmReturn ==
    /\ llm_call.called
    /\ llm_call' = [called |-> FALSE]
    /\ UNCHANGED <<engineVars, thermalVars, feedbackVars, queryVars,
                   anticipation_active, safety_margin, llm_margin_adjustment,
                   cyc, periods, last_llm_response>>

(***************************************************************************)
(* ScheduleParser.  Times are minutes since today's midnight; a day has    *)
(* 1440 minutes.  An attribute value is Num(n), a number or a text that    *)
(* float() accepts, or Text, a text that float() rejects.                  *)
(***************************************************************************)
DAY == 1440               \* timedelta(days=1)
DEFAULT_SPAN == 1439      \* timedelta(hours=23, minutes=59)
SCHEDULE_BAND == 3        \* schedule_parser.py: "+ 0.3"

Num(n) == [num |-> Some(n)]
Text == [num |-> None]

\* The truth value of an attribute: None and the number 0 are false.
AttrTruthy(a) == a # None /\ Val(a) # Num(0)

\* "a or b" over attributes
OrElse(a, b) == IF AttrTruthy(a) THEN a ELSE b

\* float(x) succeeds
IsNumber(a) == a # None /\ Val(a).num # None
Float(a) == Val(Val(a).num)

\* One entry of the events attribute.  The value is a text, as the
\* schedule source stores it, so it is never false.
Event(start, end, value, days) ==
    [start |-> start, end |-> end, state |-> Some(value), days |-> days]

\* _parse_single_event(event, date, weekday): day is 0 for today and 1 for
\* tomorrow; days is "all" when the event has no day restriction.
ParseSingleEvent(event, day) ==
    IF event.days # "all" /\ event.days # (IF day = 0 THEN "today" ELSE "tomorrow")
    THEN None
    ELSE LET start_dt == day * DAY + event.start
             end_dt == IF event.end = None THEN start_dt + DEFAULT_SPAN
                       ELSE IF day * DAY + Val(event.end) <= start_dt
                            THEN day * DAY + Val(event.end) + DAY
                            ELSE day * DAY + Val(event.end)
         IN  Some([start_dt |-> start_dt, end_dt |-> end_dt, state |-> event.state])

\* [ev for event in events if (ev := _parse_single_event(event, ...))]
RECURSIVE ParsedEvents(_, _)
ParsedEvents(events, day) ==
    IF events = << >> THEN << >>
    ELSE LET pe == ParseSingleEvent(Head(events), day)
             rest == ParsedEvents(Tail(events), day)
         IN  IF pe = None THEN rest ELSE <<Val(pe)>> \o rest

\* e put into a list sorted by start_dt, after the events that start no later.
RECURSIVE InsertByStart(_, _)
InsertByStart(e, sorted) ==
    IF sorted = << >> THEN <<e>>
    ELSE IF Head(sorted).start_dt <= e.start_dt
         THEN <<Head(sorted)>> \o InsertByStart(e, Tail(sorted))
         ELSE <<e>> \o sorted

\* parsed_events.sort(key=lambda e: e["start_dt"]) -- a stable sort
RECURSIVE SortByStart(_)
SortByStart(evs) ==
    IF evs = << >> THEN << >>
    ELSE InsertByStart(evs[Len(evs)], SortByStart(SubSeq(evs, 1, Len(evs) - 1)))

\* Mutant: the bound is not strict.
Exceeds_AtLeast(candidate, current) ==
    IsNumber(candidate) /\ IsNumber(current) /\ Float(candidate) >= Float(current) + SCHEDULE_BAND

\* "candidate_temp > current_temp + 0.3", false when float() rejects either
Exceeds(candidate, current) ==
    IsNumber(candidate) /\ IsNumber(current) /\ Float(candidate) > Float(current) + SCHEDULE_BAND

\* Index of the first event of the sorted list that covers t, 0 if none.
CoveringIndex(sorted, t) ==
    LET I == {i \in 1..Len(sorted) : sorted[i].start_dt <= t /\ t < sorted[i].end_dt}
    IN  IF I = {} THEN 0 ELSE CHOOSE i \in I : \A k \in I : i <= k

\* The inner loop: the first event after position i that exceeds event i.
NextEventToday(sorted, i) ==
    LET J == {j \in (i + 1)..Len(sorted) : Exceeds(sorted[j].state, sorted[i].state)}
    IN  IF i = 0 \/ J = {} THEN None
        ELSE Some(sorted[CHOOSE j \in J : \A k \in J : j <= k])

\* The scan of tomorrow: the first event, in the order of the attribute, that
\* applies tomorrow and exceeds the current setpoint.
NextEventTomorrow(events, current_consigne) ==
    LET J == {j \in 1..Len(events) :
                /\ ParseSingleEvent(events[j], 1) # None
                /\ Exceeds(events[j].state, Some(Num(current_consigne)))}
    IN  IF J = {} THEN None
        ELSE ParseSingleEvent(events[CHOOSE j \in J : \A k \in J : j <= k], 1)

\* _parse_schedule_state(state, current_consigne) at time t
ParseScheduleState(events, t, current_consigne) ==
    IF events = << >> THEN None
    ELSE LET sorted == SortByStart(ParsedEvents(events, 0))
         IN  IF sorted = << >> THEN None
             ELSE LET today == NextEventToday(sorted, CoveringIndex(sorted, t))
                      next_event == IF today # None THEN today
                                    ELSE NextEventTomorrow(events, current_consigne)
                  IN  IF next_event = None \/ ~IsNumber(Val(next_event).state) THEN None
                      ELSE Some(NextTransition(Some(Val(next_event).start_dt),
                                               Float(Val(next_event).state),
                                               current_consigne))

\* "current_consigne <= eco + 0.3"
InEco(current_consigne, eco) == current_consigne <= eco + SCHEDULE_BAND

\* _parse_vtherm_attrs(state, current_consigne)
ParseVthermAttrs(attrs, current_consigne) ==
    LET comfort_temp == OrElse(attrs.comfort_temp, attrs.comfort)
        eco_temp == OrElse(attrs.eco_temp, attrs.eco)
    IN  IF comfort_temp = None \/ eco_temp = None THEN None
        ELSE IF ~IsNumber(comfort_temp) \/ ~IsNumber(eco_temp) THEN None
        ELSE IF /\ InEco(current_consigne, Float(eco_temp))
                /\ Float(comfort_temp) > Float(eco_temp) + SCHEDULE_BAND
             THEN Some(NextTransition(None, Float(comfort_temp), current_consigne))
             ELSE None

\* Mutant: the preset strategy is tried before the list of events.
GetNextHeatingTransition_PresetFirst(events, attrs, t, current_consigne) ==
    LET listed == ParseScheduleState(events, t, current_consigne)
        preset == ParseVthermAttrs(attrs, current_consigne)
    IN  IF preset # None THEN preset
        ELSE IF listed # None THEN listed
        ELSE Some(NextTransition(None, current_consigne, current_consigne))

\* get_next_heating_transition() for an entity whose state is the number
\* current_consigne
GetNextHeatingTransition(events, attrs, t, current_consigne) ==
    LET listed == ParseScheduleState(events, t, current_consigne)
        preset == ParseVthermAttrs(attrs, current_consigne)
    IN  IF listed # None THEN listed
        ELSE IF preset # None THEN preset
        ELSE Some(NextTransition(None, current_consigne, current_consigne))

\* The schedule sources looked at: lists of at most MaxEvents events.
MaxEvents == 3
EventPool ==
    {Event(480, Some(1020), Num(160), "all"),
     Event(1020, Some(1260), Num(195), "all"),
     Event(540, Some(720), Num(190), "all"),
     Event(1320, Some(360), Num(170), "all"),
     Event(1020, None, Text, "all"),
     Event(1080, Some(1200), Num(163), "today"),
     Event(360, Some(480), Num(200), "tomorrow")}
LookupTimes == {600, 1000, 1100}
LookupSetpoints == {160, 195}
ComfortTemps == {None, Some(Num(190)), Some(Text)}
ComfortAliases == {None, Some(Num(200))}
EcoTemps == {None, Some(Num(0)), Some(Num(160)), Some(Num(175))}
EcoAliases == {None, Some(Num(160))}

\* One lookup of the next transition.
Lookup ==
    /\ ~sched_call.called
    /\ \E n \in 0..MaxEvents :
         \E events \in [1..n -> EventPool], t \in LookupTimes,
            current_consigne \in LookupSetpoints,
            comfort_temp \in ComfortTemps, comfort \in ComfortAliases,
            eco_temp \in EcoTemps, eco \in EcoAliases :
           LET attrs == [comfort_temp |-> comfort_temp, comfort |-> comfort,
                         eco_temp |-> eco_temp, eco |-> eco]
           IN  sched_call' = [called |-> TRUE,
                              events |-> events,
                              attrs |-> attrs,
                              t |-> t,
                              current_consigne |-> current_consigne,
                              listed |-> ParseScheduleState(events, t, current_consigne),
                              result |-> GetNextHeatingTransition(events, attrs, t,
                                                                  current_consigne)]
    /\ UNCHANGED <<engineVars, thermalVars, feedbackVars, est_call, suggestion, coordVars,
                   codec_call, cycle_pc, current_session, last_off_time, hvac_seen,
                   load_call, rec_call, enabled, reset_call, coordinators, services,
                   svc_call>>

\* The caller has taken the transition; the next lookup can be made.
LookupReturn ==
    /\ sched_call.called
    /\ sched_call' = [called |-> FALSE]
    /\ UNCHANGED <<engineVars, thermalVars, feedbackVars, est_call, suggestion, coordVars,
                   codec_call, cycle_pc, current_session, last_off_time, hvac_seen,
                   load_call, rec_call, enabled, reset_call, coordinators, services,
                   svc_call>>

(***************************************************************************)
(* to_dict and from_dict of HeatingSession and AnticipationResult.  An     *)
(* object is a record of all the dataclass's fields; a dict is a function  *)
(* from the keys it holds.  json.dumps and json.loads keep the numbers,    *)
(* texts, booleans and None these fields hold.                             *)
(***************************************************************************)
\* A HeatingSession object.  The coordinator builds it without points, so
\* points has its default, the empty list.
HeatingSession(date, temp_ext_avg, speed, anticipated, points) ==
    [date |-> date,
     temp_start |-> 180,
     temp_end |-> 195,
     temp_ext_avg |-> temp_ext_avg,
     delta_temp |-> 15,
     duration_min |-> 300,
     speed_degc_per_min |-> speed,
     anticipated |-> anticipated,
     points |-> points]

\* data.get(key, default)
Get(data, key, default) == IF key \in DOMAIN data THEN data[key] ELSE default

\* Mutant: to_dict leaves out the anticipated flag.
SessionToDict_NoFlag(session) ==
    [key \in {"date", "temp_start", "temp_end", "temp_ext_avg", "delta_temp",
              "duration_min", "speed_degc_per_min"} |-> session[key]]

\* HeatingSession.to_dict: every field but points.
SessionToDict(session) ==
    [key \in {"date", "temp_start", "temp_end", "temp_ext_avg", "delta_temp",
              "duration_min", "speed_degc_per_min", "anticipated"} |-> session[key]]

\* HeatingSession.from_dict: missing keys get their defaults; points is not
\* read and gets the dataclass default.
SessionFromDict(data) ==
    [date |-> Get(data, "date", ""),
     temp_start |-> Get(data, "temp_start", 0),
     temp_end |-> Get(data, "temp_end", 0),
     temp_ext_avg |-> Get(data, "temp_ext_avg", 0),
     delta_temp |-> Get(data, "delta_temp", 0),
     duration_min |-> Get(data, "duration_min", 0),
     speed_degc_per_min |-> Get(data, "speed_degc_per_min", 0),
     anticipated |-> Get(data, "anticipated", FALSE),
     points |-> << >>]

\* AnticipationResult.__dataclass_fields__
ResultFields ==
    {"date", "target_temp", "actual_temp_at_target_time", "temp_at_start",
     "target_time", "actual_arrival_time", "minutes_early", "margin_used",
     "llm_adjustment", "ext_temp_avg", "success"}

\* AnticipationResult.to_dict
ResultToDict(result) == [key \in ResultFields |-> result[key]]

\* AnticipationResult.from_dict: cls(**{k: data[k] for k in data if k in
\* fields}); None stands for the TypeError raised when a field is missing.
ResultFromDict(data) ==
    IF ResultFields \subseteq DOMAIN data
    THEN Some([key \in ResultFields |-> data[key]])
    ELSE None

\* get_sessions_data() and load_sessions(data), without the statistics
SessionsData(ss) == [i \in 1..Len(ss) |-> SessionToDict(ss[i])]
SessionsLoaded(data) == [i \in 1..Len(data) |-> SessionFromDict(data[i])]

\* get_history_data(): the last MAX_HISTORY results
HistoryData(hist) ==
    LET recent == LastN(hist, MAX_HISTORY)
    IN  [i \in 1..Len(recent) |-> ResultToDict(recent[i])]

\* load_history(data): an exception in any from_dict empties the history
HistoryLoaded(data) ==
    IF \E i \in 1..Len(data) : ResultFromDict(data[i]) = None THEN << >>
    ELSE [i \in 1..Len(data) |-> Val(ResultFromDict(data[i]))]

\* The objects saved and loaded here.
MaxCoded == 2
CodedSessions ==
    {HeatingSession(date, ext, speed, anticipated, << >>) :
        date \in {"2026-01-05 07:10"}, ext \in {0, 50}, speed \in {0, 5500},
        anticipated \in BOOLEAN}
CodedResults ==
    {StoredResult(13, TRUE), StoredResult(0, TRUE), StoredResult(-3, FALSE), StoredResult(6, FALSE)}

\* _save_data() followed by _load_data(): the lists written and read back.
RoundTrip ==
    /\ ~codec_call.called
    /\ \E n \in 0..MaxCoded, m \in 0..MaxCoded :
         \E ss \in [1..n -> CodedSessions], hist \in [1..m -> CodedResults] :
           codec_call' = [called |-> TRUE,
                          sessions |-> ss,
                          history |-> hist,
                          sessions_loaded |-> SessionsLoaded(SessionsData(ss)),
                          history_loaded |-> HistoryLoaded(HistoryData(hist))]
    /\ UNCHANGED <<engineVars, thermalVars, feedbackVars, est_call, suggestion,
                   sched_call, coordVars, cycle_pc, current_session, last_off_time,
                   hvac_seen, load_call, rec_call, enabled, reset_call, coordinators,
                   services, svc_call>>

\* The loaded lists have been taken over.
RoundTripReturn ==
    /\ codec_call.called
    /\ codec_call' = [called |-> FALSE]
    /\ UNCHANGED <<engineVars, thermalVars, feedbackVars, est_call, suggestion,
                   sched_call, coordVars, cycle_pc, current_session, last_off_time,
                   hvac_seen, load_call, rec_call, enabled, reset_call, coordinators,
                   services, svc_call>>

(***************************************************************************)
(* _load_data: the zone's stored file read at start-up.  The file is any   *)
(* JSON object; its lists can have any length.                             *)
(***************************************************************************)
MaxPersistedSessions == 102   \* longest stored session list explored
MaxPersistedResults == 32     \* longest stored feedback history explored

PersistedSessions(n) == [i \in 1..n |-> NthSession(i)]
PersistedResults(m) == [i \in 1..m |-> StoredResult(IF i % 2 = 0 THEN 5 ELSE -3, i % 2 = 0)]
PersistedOffTimes == {None, Some(0)}

\* The stored lengths explored: empty, short, and around the cap.
SessionCounts == {0, 1} \cup ((MAX_SESSIONS - 1)..MaxPersistedSessions)
ResultCounts == {0, 1} \cup ((MAX_HISTORY - 1)..MaxPersistedResults)

\* _load_data(): without a file nothing is read; with one, the sessions, the
\* last off time, the advisor's adjustment and the feedback history are
\* taken from it as they stand.
LoadData ==
    /\ ~load_call.called
    /\ sessions = << >> /\ history = << >>
    /\ \E exists \in BOOLEAN :
         IF ~exists
         THEN /\ load_call' = [called |-> TRUE, exists |-> FALSE]
              /\ UNCHANGED <<sessions, inertia, history, last_off_time,
                             llm_margin_adjustment, rec_call, enabled, reset_call,
                   coordinators, services, svc_call>>
         ELSE \E n \in SessionCounts :
              \E ss \in {PersistedSessions(n)} :
              \E inr \in {Recalculate(ss)} :
              \E m \in ResultCounts,
                 last_off_time_str \in PersistedOffTimes,
                 llm_data \in {None} \cup {Some(a) : a \in PersistedAdjustments} :
                /\ sessions' = ss
                /\ inertia' = inr
                /\ last_off_time' = IF last_off_time_str # None
                                    THEN last_off_time_str ELSE last_off_time
                /\ llm_margin_adjustment' = IF llm_data # None
                                            THEN Val(llm_data) ELSE llm_margin_adjustment
                /\ history' = PersistedResults(m)
                /\ load_call' = [called |-> TRUE, exists |-> TRUE]
    /\ UNCHANGED <<engineVars, added, pending_start, recorded, est_call, suggestion,
                   sched_call, codec_call, cycle_pc, current_session, hvac_seen,
                   anticipation_active, safety_margin, cyc, periods, llm_call,
                   last_llm_response, rec_call, enabled, reset_call, coordinators,
                   services, svc_call>>

\* __init__ goes on after _load_data.
LoadReturn ==
    /\ load_call.called
    /\ load_call' = [called |-> FALSE]
    /\ UNCHANGED <<engineVars, thermalVars, feedbackVars, est_call, suggestion,
                   sched_call, codec_call, cycle_pc, current_session, last_off_time,
                   hvac_seen, coordVars, rec_call, enabled, reset_call, coordinators,
                   services, svc_call>>

EngineInit ==
    /\ state = NewEngine.state
    /\ last_consigne_sent = NewEngine.sent
    /\ last_consigne_sent_time = NewEngine.sent_time
    /\ now = 0
    /\ ticks = 0
    /\ ev = NoEval

HistoryIdle ==
    /\ sessions = << >>
    /\ inertia = NoInertia
    /\ added = 0
    /\ history = << >>
    /\ pending_start = None
    /\ recorded = 0

\* The zones configured and the services every zone registers; before any
\* entry is set up there is no coordinator and no handler.
Zones == {"salon", "chambre"}
ServiceNames == {"force_llm_call", "reset_sessions", "recalculate"}
NoCoordinators == [z \in Zones |-> None]
NoServices == [n \in ServiceNames |-> None]

\* No query has been made, and the coordinator is as __init__ leaves it with
\* the default configuration (safety margin 115 %).
QueryIdle ==
    /\ est_call = NoEstimate
    /\ suggestion = [called |-> FALSE]
    /\ sched_call = [called |-> FALSE]
    /\ codec_call = [called |-> FALSE]
    /\ cycle_pc = [at_await |-> FALSE]
    /\ current_session = None
    /\ last_off_time = None
    /\ hvac_seen = NoHvacSeen
    /\ load_call = [called |-> FALSE]
    /\ rec_call = NoRecord
    /\ enabled = TRUE
    /\ reset_call = NoReset
    /\ coordinators = NoCoordinators
    /\ services = NoServices
    /\ svc_call = [called |-> FALSE]

CoordinatorInit ==
    /\ anticipation_active = FALSE
    /\ safety_margin = DEFAULT_SAFETY_MARGIN
    /\ llm_margin_adjustment = 0
    /\ cyc = NoCycle
    /\ periods = [begun |-> 0, ended |-> 0, starts |-> 0, appends |-> 0]
    /\ llm_call = [called |-> FALSE]
    /\ last_llm_response = None

Init == EngineInit /\ HistoryIdle /\ QueryIdle /\ CoordinatorInit

Next == Evaluate \/ Return \/ ScheduleDrop \/ Tick

Spec == Init /\ [][Next]_vars

\* The thermal model alone: a sequence of add_session calls.
NextThermal == AddSession
SpecThermal == Init /\ [][NextThermal]_vars

\* The feedback loop alone: start_tracking and record_result calls.
NextFeedback == StartTracking \/ RecordResult
SpecFeedback == Init /\ [][NextFeedback]_vars

\* The estimate alone: a stored history is loaded and queries are made.
NextEstimate == LoadSessions \/ EstimateQuery \/ EstimateReturn
SpecEstimate == Init /\ [][NextEstimate]_vars

\* The margin suggestion alone: a stored history is loaded and asked about.
NextSuggest == LoadHistory \/ Suggest \/ SuggestReturn
SpecSuggest == Init /\ [][NextSuggest]_vars

\* The control loop of one zone.  _load_data has loaded three sessions and
\* one of three feedback histories, and a stored advisor adjustment.
CycleSessions ==
    <<StoredSession(50, 300, 5000), StoredSession(50, 300, 6000),
      StoredSession(50, 300, 5500)>>

CycleHistories ==
    {<< >>, Repeat(StoredResult(-3, FALSE), 3), Repeat(StoredResult(13, TRUE), 3)}

CycleInit ==
    /\ EngineInit
    /\ sessions \in {<< >>, CycleSessions}
    /\ inertia = Recalculate(sessions)
    /\ added = 0
    /\ history \in CycleHistories
    /\ pending_start = None
    /\ recorded = 0
    /\ QueryIdle
    /\ anticipation_active = FALSE
    /\ safety_margin = 115
    /\ llm_margin_adjustment \in {0, 20}
    /\ cyc = NoCycle
    /\ periods = [begun |-> 0, ended |-> 0, starts |-> 0, appends |-> 0]
    /\ llm_call = [called |-> FALSE]
    /\ last_llm_response = None

\* The advisor of one zone.  _load_data has taken the adjustment of the stored
\* last_llm_response as it is in the file (0 when there is none).
AdvisorInit ==
    /\ EngineInit /\ HistoryIdle /\ QueryIdle
    /\ anticipation_active = FALSE
    /\ safety_margin = 115
    /\ llm_margin_adjustment \in PersistedAdjustments
    /\ cyc = NoCycle
    /\ periods = [begun |-> 0, ended |-> 0, starts |-> 0, appends |-> 0]
    /\ llm_call = [called |-> FALSE]
    /\ last_llm_response = None

NextAdvisor == CallLlm \/ CallLlmReturn
SpecAdvisor == AdvisorInit /\ [][NextAdvisor]_vars

\* The control loop with its suspension point and the handlers that can run
\* there.  _load_data has loaded three sessions.
InterleaveInit ==
    /\ EngineInit /\ QueryIdle
    /\ sessions = CycleSessions
    /\ inertia = Recalculate(CycleSessions)
    /\ added = 0
    /\ history = << >>
    /\ pending_start = None
    /\ recorded = 0
    /\ CoordinatorInit

NextInterleave ==
    \/ UpdateData \/ UpdateSuspend \/ UpdateResume \/ UpdateReturn
    \/ ScheduleChangeDuringSend \/ SetMarginDuringSend
SpecInterleave == InterleaveInit /\ [][NextInterleave]_vars

\* The schedule parser on its own.
NextSchedule == Lookup \/ LookupReturn
SpecSchedule == Init /\ [][NextSchedule]_vars

\* Saving and loading the two histories.
NextCodec == RoundTrip \/ RoundTripReturn
SpecCodec == Init /\ [][NextCodec]_vars

NextCycle == UpdateData \/ UpdateReturn \/ OnScheduleChange \/ Tick
SpecCycle == CycleInit /\ [][NextCycle]_vars

\* The control cycle with the actuator heating or not, and the clock.
NextAntiCycle == UpdateDataTracked \/ UpdateReturn \/ Tick
AntiCycleInit == CycleInit /\ history = << >> /\ llm_margin_adjustment = 0
SpecAntiCycle == AntiCycleInit /\ [][NextAntiCycle]_vars

\* A zone's start-up: __init__, then _load_data.
NextLoad == LoadData \/ LoadReturn
SpecLoad == Init /\ [][NextLoad]_vars

\* The control loop of a zone with three sessions learnt, and the
\* reset_sessions service.
ResetInit == AntiCycleInit /\ sessions = CycleSessions
NextReset == UpdateData \/ UpdateReturn \/ HandleResetSessions \/ ResetReturn \/ Tick
SpecReset == ResetInit /\ [][NextReset]_vars

(***************************************************************************)
(* Several zones in one Home Assistant.  Each config entry has its own     *)
(* coordinator; the service registry of hass holds one handler per         *)
(* (domain, service name), the one registered last.                        *)
(***************************************************************************)
ZoneAnswers ==
    {None, Some(FailureResponse("Connection error")), Some(LLMResponse(10, None)),
     Some(LLMResponse(-5, None))}

\* A zone's coordinator, as far as the services reach it: its sessions and
\* statistics, the advisor's adjustment and the refresh it has been asked for.
Coordinator(ss, inr, adjustment, refresh) ==
    [sessions |-> ss, inertia |-> inr, llm_margin_adjustment |-> adjustment,
     refresh_requested |-> refresh]

\* async_setup_entry(hass, entry) for zone z: the coordinator is built (and
\* loads its file), refreshed, and async_setup registers its three handlers
\* under the names shared by all zones.
SetupEntry ==
    /\ ~svc_call.called
    /\ \E z \in Zones :
         /\ coordinators[z] = None
         /\ \E ss \in {<< >>, CycleSessions} :
              coordinators' =
                  [coordinators EXCEPT ![z] = Some(Coordinator(ss, Recalculate(ss), 0, FALSE))]
         /\ services' = [n \in ServiceNames |-> Some(z)]
    /\ UNCHANGED <<engineVars, thermalVars, feedbackVars, est_call, suggestion,
                   sched_call, codec_call, cycle_pc, current_session, last_off_time,
                   hvac_seen, load_call, rec_call, enabled, reset_call, svc_call,
                   coordVars>>

\* The coordinator after its handler for the service name has run.
Handled(c, name, answer) ==
    IF name = "reset_sessions"
    THEN Coordinator(<< >>, Recalculate(<< >>), c.llm_margin_adjustment, TRUE)
    ELSE IF name = "recalculate"
    THEN Coordinator(c.sessions, c.inertia, c.llm_margin_adjustment, TRUE)
    ELSE IF answer # None /\ ~ErrorIsSet(Val(answer).error)
         THEN Coordinator(c.sessions, c.inertia, Val(answer).margin_adjustment, TRUE)
         ELSE c

\* hass.services.async_call(DOMAIN, name): the registered handler runs, on
\* the coordinator it is bound to.  The call is made for the zone wanted,
\* which nothing in the call carries.
CallService ==
    /\ ~svc_call.called
    /\ \E name \in ServiceNames, wanted \in Zones, answer \in ZoneAnswers :
         /\ coordinators[wanted] # None
         /\ services[name] # None
         /\ LET z == Val(services[name])
            IN  /\ coordinators' =
                       [coordinators EXCEPT ![z] = Some(Handled(Val(@), name, answer))]
                /\ svc_call' = [called |-> TRUE, name |-> name, wanted |-> wanted,
                                target |-> z, before |-> coordinators]
    /\ UNCHANGED <<engineVars, thermalVars, feedbackVars, est_call, suggestion,
                   sched_call, codec_call, cycle_pc, current_session, last_off_time,
                   hvac_seen, load_call, rec_call, enabled, reset_call, services,
                   coordVars>>

\* The refresh asked for by a handler has run.
Refreshed ==
    /\ ~svc_call.called
    /\ \E z \in Zones :
         /\ coordinators[z] # None /\ Val(coordinators[z]).refresh_requested
         /\ coordinators' =
                [coordinators EXCEPT ![z] = Some([Val(@) EXCEPT !.refresh_requested = FALSE])]
    /\ UNCHANGED <<engineVars, thermalVars, feedbackVars, est_call, suggestion,
                   sched_call, codec_call, cycle_pc, current_session, last_off_time,
                   hvac_seen, load_call, rec_call, enabled, reset_call, services,
                   svc_call, coordVars>>

\* The service call has returned.
ServiceReturn ==
    /\ svc_call.called
    /\ svc_call' = [called |-> FALSE]
    /\ UNCHANGED <<engineVars, thermalVars, feedbackVars, est_call, suggestion,
                   sched_call, codec_call, cycle_pc, current_session, last_off_time,
                   hvac_seen, load_call, rec_call, enabled, reset_call, coordinators,
                   services, coordVars>>

\* Home Assistant with up to two zones of this integration.
NextZones == SetupEntry \/ CallService \/ Refreshed \/ ServiceReturn
SpecZones == Init /\ [][NextZones]_vars

\* The session tracking of a zone that is switched off and on, without a
\* schedule to anticipate.
NextTracker ==
    UpdateDataUnscheduled \/ UpdateDisabled \/ UpdateReturn \/ SetEnabled \/ Tick
SpecTracker == AntiCycleInit /\ [][NextTracker]_vars

\* The feedback loop with a clock: observations opened and closed before,
\* at and after their target times.
NextRecord == StartTrackingAt \/ RecordCall \/ RecordReturn \/ Tick
SpecRecord == Init /\ [][NextRecord]_vars

(***************************************************************************)
(* Properties of AnticipationEngine.async_evaluate.  ev describes the call *)
(* that has just returned: its arguments, the engine before it (ev.pre),   *)
(* the clock (ev.at) and the setpoint commands attempted (ev.attempts).    *)
(***************************************************************************)
EvPresent == ~MissingData(ev.temp_indoor, ev.next_consigne, ev.minutes_needed)
EvDelta == Val(ev.next_consigne) - Val(ev.temp_indoor)
EvShouldStart ==
    ShouldStart(ev.at, Val(ev.minutes_needed), Val(ev.next_consigne),
                ev.target_time, ev.current_sched)

\* C1: an evaluation of an Idle engine with the anti-short-cycle gate set
\* leaves the engine Idle and sends no setpoint command, whatever the other
\* inputs are.
C1_GateKeepsIdle ==
    (ev.called /\ ~ev.pre.state.active /\ ev.is_anti_cycle_active)
        => (~state.active /\ ev.attempts = << >>)

\* Witness of C1: the gate is set on a call whose other inputs would have
\* started a cycle (data present, should_start, delta > 0.3, minutes > 0).
C1_Witness ==
    /\ ev.called /\ ~ev.pre.state.active /\ ev.is_anti_cycle_active
    /\ EvPresent
    /\ ev.target_time # None
    /\ EvShouldStart
    /\ EvDelta > DELTA_MIN /\ Val(ev.minutes_needed) > 0
    /\ ~state.active

\* C2 as stated: an Active engine with recorded target T, evaluated with an
\* indoor temperature at or above T - 0.2, is Idle when the call returns,
\* whatever setpoint is passed in that call.
C2_Original ==
    (/\ ev.called /\ ev.pre.state.active
     /\ ev.temp_indoor # None
     /\ Val(ev.temp_indoor) >= Val(ev.pre.state.target_consigne) - REACHED_BAND)
        => ~state.active

\* C2 amended: an Active engine evaluated with all three values present and an
\* indoor temperature at or above S - 0.2, S being the setpoint passed in that
\* call, is Idle when the call returns, whatever its recorded target,
\* minutes-needed and target time are.
C2_ReachedPassedSetpoint ==
    (/\ ev.called /\ ev.pre.state.active
     /\ EvPresent
     /\ Val(ev.temp_indoor) >= Val(ev.next_consigne) - REACHED_BAND)
        => ~state.active

\* Witness of C2: an Active engine is evaluated inside the 0.2 band below the
\* passed setpoint (indoor below the setpoint itself) and ends Idle.
C2_Witness ==
    /\ ev.called /\ ev.pre.state.active
    /\ EvPresent
    /\ Val(ev.temp_indoor) >= Val(ev.next_consigne) - REACHED_BAND
    /\ Val(ev.temp_indoor) < Val(ev.next_consigne)
    /\ ~state.active

\* C3: an Idle engine becomes Active only in an evaluation where should_start
\* holds, setpoint - indoor > 0.3 and minutes-needed > 0; in every other
\* evaluation it stays Idle and no command is sent.
C3_StartCondition ==
    LET cond == /\ EvPresent
                /\ EvShouldStart
                /\ EvDelta > DELTA_MIN
                /\ Val(ev.minutes_needed) > 0
    IN  (ev.called /\ ~ev.pre.state.active)
            => /\ state.active => cond
               /\ ~cond => (~state.active /\ ev.attempts = << >>)

\* Witness of C3: an evaluation in which an Idle engine became Active.
C3_Witness ==
    ev.called /\ ~ev.pre.state.active /\ state.active

\* C4: with a known target time and minutes-needed > 0, an Idle engine with
\* the gate clear and setpoint - indoor > 0.3 activates in an evaluation if
\* and only if (minutes until the transition - minutes-needed) <= 2.
C4_StartTiming ==
    (/\ ev.called /\ ~ev.pre.state.active /\ ~ev.is_anti_cycle_active
     /\ EvPresent
     /\ ev.target_time # None /\ Val(ev.minutes_needed) > 0
     /\ EvDelta > DELTA_MIN)
        => (state.active <=>
              (Val(ev.target_time) - ev.at) - Val(ev.minutes_needed) <= START_BUFFER)

\* Witness of C4: the scenario of the specification, the transition 10
\* minutes away and 30 minutes needed, and the engine has activated.
C4_Witness ==
    /\ ev.called /\ ~ev.pre.state.active
    /\ ev.target_time = Some(ev.at + 10)
    /\ ev.minutes_needed = Some(30)
    /\ state.active

\* C5: whenever the engine is active, target temperature and target time are
\* set; when the activating call was given no target time, the target time is
\* the activation time plus minutes-needed.
C5_ActiveHasTarget ==
    /\ state.active =>
          (state.target_consigne # None /\ state.target_time # None)
    /\ (ev.called /\ ~ev.pre.state.active /\ state.active /\ ev.target_time = None)
          => (/\ state.started_at = Some(ev.at)
              /\ state.target_time = Some(ev.at + Val(ev.minutes_needed)))

\* Witness of C5: an activation by a call that was given no target time.
C5_Witness ==
    ev.called /\ ~ev.pre.state.active /\ state.active /\ ev.target_time = None

\* C6: an evaluation with the indoor temperature, the next setpoint or
\* minutes-needed absent leaves the engine Idle and sends no command.
C6_MissingDataIdle ==
    (ev.called /\ ~EvPresent) => (~state.active /\ ev.attempts = << >>)

\* Witness of C6: an Active engine evaluated with a value absent.
C6_Witness ==
    ev.called /\ ~EvPresent /\ ev.pre.state.active /\ ~state.active

\* C7 as stated: in an evaluation where the engine stays Active, the setpoint
\* command is resent if more than 10 minutes have elapsed since the last
\* command or the reported setpoint differs from the recorded target by more
\* than 0.3.
C7_ResendRule ==
    (/\ ev.called /\ ev.pre.state.active /\ state.active
     /\ \/ (ev.pre.sent_time # None
            /\ ev.at - Val(ev.pre.sent_time) > RESEND_MINUTES)
        \/ Drifted(ev.climate_setpoint, ev.pre.state.target_consigne))
        => ev.attempts = <<Val(ev.pre.state.target_consigne)>>

\* C7 restricted to a non-zero recorded target: the rule the code follows.
C7_NonZeroTarget ==
    (ev.called /\ ev.pre.state.active /\ Val(ev.pre.state.target_consigne) # 0)
        => C7_ResendRule

\* C8 as stated: a failed send is absorbed.  The flag and the recorded state
\* are what a successful send would have left, the last-command bookkeeping is
\* not advanced, and a later evaluation that keeps the engine Active with no
\* command delivered yet attempts the command again.
C8_FailedSendAbsorbed ==
    /\ (ev.called /\ ev.attempts # << >> /\ ~ev.ok)
          => /\ state = AsyncEvaluate(ev.pre, ev.at, ev.temp_indoor, ev.minutes_needed,
                                      ev.next_consigne, ev.is_anti_cycle_active,
                                      ev.target_time, ev.current_sched,
                                      ev.climate_setpoint, TRUE).eng.state
             /\ last_consigne_sent = ev.pre.sent
             /\ last_consigne_sent_time = ev.pre.sent_time
    /\ (ev.called /\ ev.pre.state.active /\ state.active /\ ev.pre.sent_time = None)
          => ev.attempts # << >>

(***************************************************************************)
(* Properties of the bounded histories                                     *)
(***************************************************************************)
Min(a, b) == IF a <= b THEN a ELSE b

\* C9: after any sequence of add_session calls the history holds at most 100
\* sessions, and it is exactly the most recent ones in insertion order: each
\* add to a full history drops the oldest and keeps the order of the rest.
C9_SessionsBounded ==
    /\ Len(sessions) <= MAX_SESSIONS
    /\ Len(sessions) = Min(added, MAX_SESSIONS)
    /\ \A i \in 1..Len(sessions) : sessions[i] = NthSession(added - Len(sessions) + i)

\* Witness of C9: more than 100 sessions were added and the oldest are gone.
C9_Witness ==
    added > MAX_SESSIONS /\ Len(sessions) = MAX_SESSIONS /\ sessions[1].date = added - MAX_SESSIONS + 1

\* C10: after any sequence of start_tracking / record_result calls the
\* feedback history holds at most 30 results, the most recent ones in
\* insertion order: a result recorded into a full history evicts the oldest.
C10_HistoryBounded ==
    /\ Len(history) <= MAX_HISTORY
    /\ Len(history) = Min(recorded, MAX_HISTORY)
    /\ \A i \in 1..Len(history) :
          history[i].target_time = recorded - Len(history) + i

\* Witness of C10: more than 30 results were recorded and the oldest are gone.
C10_Witness ==
    recorded > MAX_HISTORY /\ Len(history) = MAX_HISTORY /\ history[1].target_time = recorded - MAX_HISTORY + 1

\* C8 restricted to a non-zero recorded target.
C8_NonZeroTarget ==
    (ev.called /\ ev.pre.state.target_consigne # Some(0)
               /\ state.target_consigne # Some(0))
        => C8_FailedSendAbsorbed

(***************************************************************************)
(* Properties of ThermalModel.estimate_time_to_target.  est_call describes *)
(* the query that has just returned, on the history in sessions.           *)
(***************************************************************************)
EstDelta == est_call.target_temp - est_call.current_temp

\* The value the history in sessions gives for another query.
EstResultFor(delta, margin) ==
    EstimateTimeToTarget(sessions, inertia, est_call.current_temp,
                         est_call.current_temp + delta, est_call.ext_temp, margin).result

QueryDeltas == {t - c : t \in QueryTargets, c \in QueryCurrent}

\* C11: a query with target temperature <= current temperature returns 0,
\* for every margin, outdoor temperature and history, the empty one included.
C11_ZeroWhenNoHeatNeeded ==
    (est_call.called /\ est_call.target_temp <= est_call.current_temp)
        => est_call.result = Some(0)

\* Witness of C11: target = current on the empty history, on which a query
\* with a higher target is answered "unknown".
C11_Witness ==
    /\ est_call.called /\ est_call.target_temp = est_call.current_temp
    /\ sessions = << >>
    /\ est_call.result = Some(0)
    /\ EstResultFor(10, est_call.margin) = None

\* C12: on one history and one outdoor temperature the estimate is
\* non-decreasing in (target - current) for a fixed margin, and
\* non-decreasing in the margin for a fixed (target - current).
C12_Monotone ==
    (est_call.called /\ est_call.result # None)
        => /\ \A d \in QueryDeltas :
                (d >= EstDelta /\ EstResultFor(d, est_call.margin) # None)
                    => Val(EstResultFor(d, est_call.margin)) >= Val(est_call.result)
           /\ \A m \in QueryMargins :
                (m >= est_call.margin /\ EstResultFor(EstDelta, m) # None)
                    => Val(EstResultFor(EstDelta, m)) >= Val(est_call.result)

\* Witness of C12: a query with a positive result for which both a larger
\* delta and a larger margin give a strictly larger result.
C12_Witness ==
    /\ est_call.called /\ est_call.result # None /\ Val(est_call.result) > 0
    /\ \E d \in QueryDeltas :
          d > EstDelta /\ Val(EstResultFor(d, est_call.margin)) > Val(est_call.result)
    /\ \E m \in QueryMargins :
          m > est_call.margin /\ Val(EstResultFor(EstDelta, m)) > Val(est_call.result)

\* The exact quotient delta / speed * margin of a query is EstExactNum / EstExactDen.
EstSpeedFound == est_call.called /\ est_call.looked_up /\ est_call.result # None
EstExactNum == EstDelta * est_call.margin * 100 * Val(est_call.speed).den
EstExactDen == Val(est_call.speed).num

\* The scenario of the specification: speeds 0.05, 0.06, 0.055 at 5 degrees
\* outdoors, and the query (18, 20, 5, margin 1.15).
EstScenario ==
    /\ est_call.called
    /\ sessions = <<StoredSession(50, 300, 5000), StoredSession(50, 300, 6000),
                    StoredSession(50, 300, 5500)>>
    /\ est_call.current_temp = 180 /\ est_call.target_temp = 200
    /\ est_call.ext_temp = 50 /\ est_call.margin = 115

\* C13 as stated: when a speed is found and target > current the result is
\* ceil(delta / speed * margin), so never below the exact value; the
\* scenario returns 42.
C13_Ceiling ==
    /\ EstSpeedFound
          => /\ Val(est_call.result) * EstExactDen >= EstExactNum
             /\ (Val(est_call.result) - 1) * EstExactDen < EstExactNum
    /\ EstScenario => est_call.result = Some(42)

\* C13 amended: when a speed is found and target > current the result is
\* delta / speed * margin rounded to the nearest whole number, so it is
\* within half a minute of the exact value, above or below; the scenario
\* returns 42.
C13_Nearest ==
    /\ EstSpeedFound
          => 2 * Abs(Val(est_call.result) * EstExactDen - EstExactNum) <= EstExactDen
    /\ EstScenario => est_call.result = Some(42)

\* Witness of C13: the scenario has been queried and returned 42.
C13_Witness ==
    EstScenario /\ EstSpeedFound /\ est_call.result = Some(42)

\* The multiples of 5 degrees nearest to the queried outdoor temperature.
C14_Multiples == {50 * k : k \in -2..8}
C14_Buckets ==
    {m \in C14_Multiples :
        \A k \in C14_Multiples : Abs(est_call.ext_temp - m) <= Abs(est_call.ext_temp - k)}

\* v (a fraction) is the median of the speeds of the sessions indexed by I:
\* the mean of a lower and an upper middle element, found by their ranks.
C14_IsMedian(I, v) ==
    LET n == Cardinality(I)
        x(i) == sessions[i].speed_degc_per_min
        below(a) == Cardinality({k \in I : x(k) < a})
        above(a) == Cardinality({k \in I : x(k) > a})
    IN  \E i, j \in I :
          /\ below(x(i)) <= (n + 1) \div 2 - 1 /\ above(x(i)) <= n \div 2
          /\ below(x(j)) <= n \div 2 /\ above(x(j)) <= (n + 1) \div 2 - 1
          /\ 2 * v.num = (x(i) + x(j)) * v.den

\* v (a fraction) is the mean speed of the valid sessions, to 5 decimals.
C14_IsGlobalMean(v) ==
    LET I == {i \in 1..Len(sessions) : IsValidSession(sessions[i])}
        total == SumSeq([i \in 1..Len(sessions) |->
                           IF i \in I THEN sessions[i].speed_degc_per_min ELSE 0])
    IN  /\ v.den = 1
        /\ 2 * Abs(v.num * Cardinality(I) - total) <= Cardinality(I)

\* The cascade of the claim for the matching sessions I: their median, else
\* the global mean over valid sessions, else unknown.
C14_Cascade(I) ==
    IF I # {}
    THEN est_call.speed # None /\ C14_IsMedian(I, Val(est_call.speed))
    ELSE IF \E i \in 1..Len(sessions) : IsValidSession(sessions[i])
    THEN est_call.speed # None /\ C14_IsGlobalMean(Val(est_call.speed))
    ELSE est_call.speed = None /\ est_call.result = None

\* C14 as stated: the speed used is the median speed of the sessions whose
\* average outdoor temperature is within 5 degrees of the outdoor temperature
\* rounded to the nearest multiple of 5; with no such session it is the mean
\* speed of the valid sessions; with no valid session the estimate is unknown.
C14_SpeedChoice ==
    (est_call.called /\ est_call.looked_up)
        => \E m \in C14_Buckets :
              C14_Cascade({i \in 1..Len(sessions) :
                              Abs(sessions[i].temp_ext_avg - m) <= 50})

\* C14 amended: the median is taken over the sessions within 5 degrees of
\* the bucket that have a speed > 0, and the fall-back to the global mean
\* applies when no session within 5 degrees has a speed > 0.
C14_PositiveSpeedChoice ==
    (est_call.called /\ est_call.looked_up)
        => \E m \in C14_Buckets :
              C14_Cascade({i \in 1..Len(sessions) :
                              /\ Abs(sessions[i].temp_ext_avg - m) <= 50
                              /\ sessions[i].speed_degc_per_min > 0})

\* Witness of C14: a query whose bucket is exactly 5 degrees from two
\* sessions of different positive speeds, answered with their median
\* although the history holds a third, valid session elsewhere.
C14_Witness ==
    /\ est_call.called /\ est_call.looked_up
    /\ est_call.ext_temp = 25
    /\ Len(sessions) = 3
    /\ sessions[1] = StoredSession(50, 300, 5000)
    /\ sessions[2] = StoredSession(50, 300, 6000)
    /\ sessions[3] = StoredSession(100, 300, 6000)
    /\ est_call.speed = Some(Fraction(11000, 2))

C16_Window ==
    [i \in 1..Min(Len(history), 10) |-> history[Len(history) - Min(Len(history), 10) + i]]
C16_N == Len(C16_Window)
C16_Total == SumSeq([i \in 1..C16_N |-> C16_Window[i].minutes_early])
C16_Successes == Cardinality({i \in 1..C16_N : C16_Window[i].success})
C16_LowSuccess == 10 * C16_Successes < 7 * C16_N

C17_Feedback == IF cyc.suggested = None THEN 0 ELSE Val(cyc.suggested)

\* C17: in every cycle the margin passed to the thermal model's estimate is
\* base margin + advisor adjustment + feedback suggestion (0 when there is
\* none), and the same value is stored as margin_used when feedback
\* tracking starts in that cycle.
C17_EffectiveMargin ==
    cyc.called
        => /\ cyc.estimate_margin # None
                => Val(cyc.estimate_margin)
                      = safety_margin + llm_margin_adjustment + C17_Feedback
           /\ cyc.started
                => /\ cyc.estimate_margin # None
                   /\ Val(pending_start).margin_used = Val(cyc.estimate_margin)

\* Witness of C17: tracking started in a cycle with a feedback suggestion of
\* +2 step and a stored advisor adjustment of +0.20.
C17_Witness ==
    /\ cyc.called /\ cyc.started
    /\ cyc.suggested = Some(4)
    /\ llm_margin_adjustment = 20
    /\ Val(pending_start).margin_used = 139

\* C18 as stated: start_tracking is called once for every Active period
\* begun and record_result once for every Active period ended, so that at
\* the end of a cycle every ended period has appended exactly one result.
C18_OneResultPerPeriod ==
    cyc.called
        => /\ periods.starts = periods.begun
           /\ periods.appends = periods.ended

\* C19 as stated: whenever the engine is Active at the end of a cycle, the
\* one pending observation carries the target temperature and target time
\* of the current Active period.
C19_PendingIsCurrent ==
    (cyc.called /\ state.active)
        => /\ pending_start # None
           /\ Val(pending_start).target_temp = Val(state.target_consigne)
           /\ Val(pending_start).target_time = Val(state.target_time)

(***************************************************************************)
(* Properties of the stored advisor adjustment.  llm_call describes the    *)
(* _call_llm run that has just finished.                                   *)
(***************************************************************************)
\* C20 as stated: in every reachable state the stored advisor adjustment is
\* within [-0.15, +0.20], whatever the backend returned and whatever was
\* loaded from the stored file, and a call that brings no successful
\* response leaves it as it was.
C20_AdjustmentInRange ==
    /\ llm_margin_adjustment >= -15 /\ llm_margin_adjustment <= 20
    /\ (llm_call.called /\ ~llm_call.accepted)
          => llm_margin_adjustment = llm_call.before

\* C20 without the stored file: after a successful response the adjustment is
\* the response's, within [-0.15, +0.20], and any other call leaves it as it
\* was.
C20_AfterResponse ==
    llm_call.called
        => IF llm_call.accepted
           THEN /\ llm_margin_adjustment >= -15 /\ llm_margin_adjustment <= 20
                /\ llm_margin_adjustment = Val(llm_call.response).margin_adjustment
           ELSE llm_margin_adjustment = llm_call.before

(***************************************************************************)
(* Failed advisor calls.                                                   *)
(***************************************************************************)
\* The call has been made and the advisor raised, timed out or returned a
\* response carrying an error.
C21_Failed ==
    /\ llm_call.called /\ llm_call.enabled
    /\ (llm_call.response = None \/ Val(llm_call.response).error # None)

\* C21: after an advisor call that raised, timed out or returned a response
\* carrying an error, the stored adjustment and the last response are what
\* they were before the call, nothing has been saved, and the effective
\* margin of the next cycle is what it would have been without the call.
C21_FailedCallChangesNothing ==
    C21_Failed
        => /\ llm_margin_adjustment = llm_call.before
           /\ last_llm_response = llm_call.before_response
           /\ ~llm_call.saved
           /\ \A f \in {-4, 0, 4} :
                 EffectiveMargin(safety_margin, llm_margin_adjustment, f)
                     = EffectiveMargin(safety_margin, llm_call.before, f)

\* C21 for responses whose error text is not empty, and for exceptions that
\* reach _call_llm.
C21_ReportedFailureChangesNothing ==
    (C21_Failed /\ (llm_call.response = None \/ Val(Val(llm_call.response).error) # ""))
        => /\ llm_margin_adjustment = llm_call.before
           /\ last_llm_response = llm_call.before_response
           /\ ~llm_call.saved

(***************************************************************************)
(* Properties of the schedule parser.  sched_call describes the lookup     *)
(* that has just returned.                                                 *)
(***************************************************************************)
\* The attribute the source exposes under a name or its alias: the first
\* that is present.
C22_Present(primary, alias) == IF primary # None THEN primary ELSE alias

\* The attribute the parser takes: the first that is present and not the
\* number 0.
C22_Taken(primary, alias) ==
    IF primary # None /\ Val(primary) # Num(0) THEN primary ELSE alias

C23_Sorted == SortByStart(ParsedEvents(sched_call.events, 0))

\* The positions in the sorted list q of the events that cover the time of
\* the lookup.
C23_Covering(q) ==
    {i \in 1..Len(q) : q[i].start_dt <= sched_call.t /\ sched_call.t < q[i].end_dt}

\* The covering event: the one that starts first.
C23_Current(q) == CHOOSE i \in C23_Covering(q) : \A k \in C23_Covering(q) : i <= k

\* Event j of q comes after the covering event cur and its value exceeds the
\* covering event's value by more than 0.3.
C23_Qualifies(q, cur, j) ==
    /\ j > cur
    /\ IsNumber(q[j].state) /\ IsNumber(q[cur].state)
    /\ Float(q[j].state) > Float(q[cur].state) + 3

\* C23: when an event of today covers now, the event list strategy returns
\* the first later event of today, in the order of start times, whose value
\* exceeds the covering event's value by more than 0.3; an event of today
\* that does not exceed it by more than 0.3 is never returned.
C23_FirstHigherEvent ==
    sched_call.called
        => \A q \in {C23_Sorted} :
           C23_Covering(q) # {}
             => \A cur \in {C23_Current(q)} :
                LET Q == {j \in 1..Len(q) : C23_Qualifies(q, cur, j)}
                    listed == sched_call.listed
                IN  /\ Q # {}
                         => LET first == CHOOSE j \in Q : \A k \in Q : j <= k
                            IN  listed = Some(NextTransition(Some(q[first].start_dt),
                                                             Float(q[first].state),
                                                             sched_call.current_consigne))
                    /\ (listed # None /\ Val(Val(listed).target_time) < DAY) => Q # {}

\* An event covers now, an event after it was passed over, and the one
\* after that was returned.
C23_Witness ==
    /\ sched_call.called
    /\ \E q \in {C23_Sorted} :
         /\ C23_Covering(q) # {}
         /\ \E cur \in {C23_Current(q)} : \E j \in 1..Len(q) :
              /\ C23_Qualifies(q, cur, j)
              /\ \E k \in (cur + 1)..(j - 1) : ~C23_Qualifies(q, cur, k)
              /\ sched_call.result = Some(NextTransition(Some(q[j].start_dt),
                                                         Float(q[j].state),
                                                         sched_call.current_consigne))

(***************************************************************************)
(* Saving and loading.                                                     *)
(***************************************************************************)
\* C24: a list of HeatingSession records and a list of AnticipationResult
\* records written with to_dict and read back with from_dict are equal to the
\* originals, record by record and field by field.
C24_RoundTrip ==
    codec_call.called
        => /\ Len(codec_call.sessions_loaded) = Len(codec_call.sessions)
           /\ \A i \in 1..Len(codec_call.sessions) :
                /\ DOMAIN codec_call.sessions_loaded[i] = DOMAIN codec_call.sessions[i]
                /\ \A key \in DOMAIN codec_call.sessions[i] :
                     codec_call.sessions_loaded[i][key] = codec_call.sessions[i][key]
           /\ Len(codec_call.history_loaded) = Len(codec_call.history)
           /\ \A i \in 1..Len(codec_call.history) :
                /\ DOMAIN codec_call.history_loaded[i] = DOMAIN codec_call.history[i]
                /\ \A key \in DOMAIN codec_call.history[i] :
                     codec_call.history_loaded[i][key] = codec_call.history[i][key]

\* Two sessions, one of them anticipated, and two results, one of them
\* without arrival time, have been saved and loaded.
C24_Witness ==
    /\ codec_call.called
    /\ Len(codec_call.sessions) = 2 /\ Len(codec_call.sessions_loaded) = 2
    /\ codec_call.sessions[1].anticipated /\ ~codec_call.sessions[2].anticipated
    /\ Len(codec_call.history) = 2 /\ Len(codec_call.history_loaded) = 2
    /\ codec_call.history[1].actual_arrival_time = None
    /\ codec_call.history[2].actual_arrival_time # None

(***************************************************************************)
(* The result recorded when an Active period ends.                         *)
(***************************************************************************)
\* The cycle that has just run ended an Active period with the indoor
\* temperature at or above the period's target - 0.2.
C25_EndedAtTarget ==
    /\ cyc.called /\ cyc.ended
    /\ cyc.temp_indoor # None /\ cyc.period_target # None
    /\ Val(cyc.temp_indoor) >= Val(cyc.period_target) - 2

\* C25: when an Active period ends in a cycle where the indoor temperature
\* is at or above the target - 0.2, the result recorded for the period has
\* success = true.
C25_SuccessWhenReached ==
    (C25_EndedAtTarget /\ cyc.appended) => history[Len(history)].success

\* A period ended at its target in a cycle that read a heating-up transition
\* to that target, and its result is a success.
C25_RecordedSuccess ==
    /\ C25_EndedAtTarget /\ cyc.appended
    /\ history[Len(history)].success

(***************************************************************************)
(* The engine's state after a deactivation.                                *)
(***************************************************************************)
\* Every field of AnticipationState but active is unset.
C26_FieldsUnset ==
    /\ state.target_consigne = None /\ state.target_time = None
    /\ state.minutes_needed = None /\ state.minutes_until_target = None
    /\ state.optimal_start_time = None
    /\ state.started_at = None /\ state.temp_at_start = None

\* C26: whenever the engine is Idle, by whichever path it was deactivated,
\* the target temperature, target time, minutes needed, minutes remaining,
\* start time and temperature at start are unset.
C26_ResetWhenIdle == ~state.active => C26_FieldsUnset

\* C26 for the cycles that did not lose a signal: an Idle engine after a
\* cycle that had an indoor temperature, a target and an estimate.
C26_ResetUnlessDataMissing ==
    (ev.called /\ ~state.active /\ ev.pre.state.active
        /\ ev.temp_indoor # None /\ ev.next_consigne # None /\ ev.minutes_needed # None)
        => C26_FieldsUnset

(***************************************************************************)
(* The control cycle and the handlers.                                     *)
(***************************************************************************)
\* C27: while a control cycle is suspended awaiting the actuator command, no
\* other handler modifies the engine state, the advisor adjustment or the
\* margin the cycle has read and written: they are what they were when the
\* cycle was suspended.
C27_NoInterference ==
    cycle_pc.at_await
        => /\ state = cycle_pc.state
           /\ llm_margin_adjustment = cycle_pc.llm_margin_adjustment
           /\ safety_margin = cycle_pc.safety_margin

\* Two cycles never run at once: a cycle that has just completed was not
\* overtaken by another one.
C27_CyclesSerialised == ~(cyc.called /\ cycle_pc.at_await)

(***************************************************************************)
(* The anti-short-cycle gate over whole heating periods.                   *)
(***************************************************************************)
\* C28: with anti-short-cycle enabled, once a cycle has read the actuator
\* going from heating to not heating, no cycle takes the engine from Idle to
\* Active until the minimum off time has elapsed since that reading,
\* whether or not the indoor sensor was available when the heating period
\* began or ended.
C28_GateAfterHeatingStops ==
    (anti_short_cycle /\ cyc.called /\ cyc.begun /\ hvac_seen.off_seen # None)
        => now - Val(hvac_seen.off_seen) >= min_off_time

\* The gate does hold the engine back from the moment _end_session has set
\* the last off time.
C28_GateAfterRecordedStop ==
    (anti_short_cycle /\ cyc.called /\ cyc.begun /\ last_off_time # None)
        => now - Val(last_off_time) >= min_off_time

\* A start after the minimum off time has elapsed since a recorded stop.
C28_StartAfterOffTime ==
    cyc.called /\ cyc.begun /\ last_off_time # None

(***************************************************************************)
(* The stored file at start-up.                                            *)
(***************************************************************************)
\* C29: immediately after a zone has loaded its persisted state, whatever
\* the length of the stored session list and feedback history, the
\* ThermalModel history holds at most 100 sessions and the FeedbackLoop
\* history at most 30 results.
C29_LoadedWithinCaps ==
    load_call.called => (Len(sessions) <= MAX_SESSIONS /\ Len(history) <= MAX_HISTORY)

\* The loaded lists are the stored lists, entry for entry.
C29_LoadedAsStored ==
    (load_call.called /\ load_call.exists)
        => (\E n \in SessionCounts, m \in ResultCounts :
               sessions = PersistedSessions(n) /\ history = PersistedResults(m))

(***************************************************************************)
(* record_result.  rec_call describes the call that has just returned: the *)
(* pending observation it found, the time it read (at_s, in seconds), the  *)
(* result it returned and the history before it.                           *)
(***************************************************************************)
C30_Closed == rec_call.called /\ rec_call.pending # None
C30_Diff == 60 * Val(rec_call.pending).target_time - rec_call.at_s
C30_Recorded == Val(rec_call.returned).minutes_early

\* What record_result does besides computing minutes_early: the result is
\* returned and is the newest entry of the history and the observation is
\* closed; without a pending observation nothing is returned and the history
\* is as before; two calls in a row never both append.
C30_Bookkeeping ==
    /\ C30_Closed => /\ rec_call.returned # None
                     /\ history # << >> /\ history[Len(history)] = Val(rec_call.returned)
                     /\ Len(history) = Min(Len(rec_call.before) + 1, MAX_HISTORY)
                     /\ pending_start = None
    /\ (rec_call.called /\ rec_call.pending = None)
          => (rec_call.returned = None /\ history = rec_call.before)
    /\ rec_call.called => ~(rec_call.appended /\ rec_call.prev_appended)

\* C30 as stated: the recorded minutes-early is (targetTime - now) in
\* minutes for both outcomes, positive exactly when the observation is closed
\* before the target time and negative when closed after it; without a
\* pending observation nothing is returned or appended, so two consecutive
\* calls append at most one result.
C30_MinutesEarlyExact ==
    /\ C30_Closed => /\ 6 * C30_Recorded = C30_Diff
                     /\ (C30_Recorded > 0 <=> C30_Diff > 0)
                     /\ (C30_Diff < 0 => C30_Recorded < 0)
    /\ C30_Bookkeeping

\* C30, amended: the recorded minutes-early is (targetTime - now) in minutes
\* rounded to one decimal, for both outcomes: it is positive only when the
\* observation is closed before the target time, negative only when closed
\* after it, and zero when closed less than 3 seconds from it; without a
\* pending observation nothing is returned or appended, so two consecutive
\* calls append at most one result.
C30_MinutesEarlyRounded ==
    /\ C30_Closed => /\ Abs(6 * C30_Recorded - C30_Diff) <= 3
                     /\ (C30_Recorded > 0 => C30_Diff > 0)
                     /\ (C30_Recorded < 0 => C30_Diff < 0)
                     /\ (Abs(C30_Diff) < 3 => C30_Recorded = 0)
    /\ C30_Bookkeeping

\* A missed target recorded 58 s past a minute and before its target time,
\* with a positive value.
C30_Witness ==
    /\ C30_Closed /\ ~rec_call.reached_target
    /\ C30_Diff > 0 /\ C30_Recorded > 0
    /\ rec_call.at_s % 60 = 58

(***************************************************************************)
(* Heating sessions.  cyc.tracked describes the session tracking of the    *)
(* cycle that has just run: the hvac_action and outdoor temperature it was *)
(* given and the open session, history and statistics it found.            *)
(***************************************************************************)
C31_Tracked == cyc.called /\ cyc.tracked.ran
C31_Closing == C31_Tracked /\ cyc.tracked.session # None
                   /\ cyc.tracked.hvac_action # "heating"
C31_Duration == now - Val(cyc.tracked.session).start_time

\* The time at which the actuator was first found not heating.
C31_PeriodEnd == IF cyc.tracked.paused # None THEN Val(cyc.tracked.paused) ELSE now
C31_PeriodLasted == C31_PeriodEnd - Val(cyc.tracked.session).start_time
C31_Rise == Val(cyc.temp_indoor) - Val(cyc.tracked.session).temp_start
C31_Passes ==
    /\ cyc.temp_indoor # None
    /\ C31_Duration >= MIN_SESSION_DURATION
    /\ C31_Rise >= MIN_SESSION_DELTA_TEMP

\* C31: a heating period is recorded only when it lasted at least 5
\* minutes, from the start of the session to the first cycle at which the
\* actuator was not heating, and the indoor temperature rose by at least 0.3
\* over it; a period failing either filter, or ending while the indoor
\* temperature is absent, leaves the sessions and the statistics unchanged;
\* and after any cycle that finds the actuator not heating there is no open
\* session.
C31_RecordedWhenFiltersPass ==
    /\ (C31_Tracked /\ sessions # cyc.tracked.sessions)
          => (C31_Closing /\ C31_Passes /\ C31_PeriodLasted >= MIN_SESSION_DURATION)
    /\ (C31_Closing /\ ~C31_Passes)
          => (sessions = cyc.tracked.sessions /\ inertia = cyc.tracked.inertia)
    /\ (C31_Tracked /\ cyc.tracked.hvac_action # "heating") => current_session = None

\* The filters themselves are applied as stated, to the time since the
\* session was opened and the rise since then.
C31_FiltersApplied ==
    /\ (C31_Tracked /\ sessions # cyc.tracked.sessions) => (C31_Closing /\ C31_Passes)
    /\ (C31_Closing /\ ~C31_Passes)
          => (sessions = cyc.tracked.sessions /\ inertia = cyc.tracked.inertia)
    /\ (C31_Tracked /\ cyc.tracked.hvac_action # "heating") => current_session = None

\* A period that passed the filters has been recorded.
C31_Recorded ==
    C31_Closing /\ C31_Passes /\ Len(sessions) = Len(cyc.tracked.sessions) + 1

\* The session recorded by the cycle that has just run.
C32_Recorded == C31_Closing /\ sessions # cyc.tracked.sessions
C32_Session == sessions[Len(sessions)]
C32_OutdoorAbsent ==
    Val(cyc.tracked.session).temp_ext_start = None /\ cyc.tracked.temp_outdoor = None

\* C32: a sensor state of 'unavailable' or 'unknown' is read as absent, and
\* absence is propagated: a session recorded while the outdoor temperature
\* was absent throughout does not carry 0 as its average outdoor
\* temperature, and no session is recorded from an absent indoor
\* temperature.
C32_AbsenceNotZero ==
    /\ \A st \in OutdoorStates :
          (st # None /\ Val(st).text \in {"unavailable", "unknown"})
              => GetFloatState(st) = None
    /\ C32_Recorded
          => /\ C32_OutdoorAbsent => C32_Session.temp_ext_avg # 0
             /\ cyc.temp_indoor # None
             /\ C32_Session.temp_end = Val(cyc.temp_indoor)
             /\ C32_Session.temp_start = Val(cyc.tracked.session).temp_start

\* The indoor half of it holds, and so does the reading of the sentinels.
C32_IndoorNeverZero ==
    /\ \A st \in OutdoorStates :
          (st # None /\ Val(st).text \in {"unavailable", "unknown"})
              => GetFloatState(st) = None
    /\ C32_Recorded
          => /\ cyc.temp_indoor # None
             /\ C32_Session.temp_end = Val(cyc.temp_indoor)
             /\ C32_Session.temp_start = Val(cyc.tracked.session).temp_start

C34_ZonesIndependent ==
    /\ \A z \in Zones, n \in ServiceNames :
          coordinators[z] # None => services[n] = Some(z)
    /\ svc_call.called
          => /\ svc_call.target = svc_call.wanted
             /\ \A z \in Zones \ {svc_call.wanted} : coordinators[z] = svc_call.before[z]

\* A handler changes the coordinator it is bound to and no other.
C34_HandlerActsOnOneZone ==
    svc_call.called
        => \A z \in Zones \ {svc_call.target} : coordinators[z] = svc_call.before[z]

\* A reset made for the first zone has emptied the sessions of the second.
C34_WrongZoneReset ==
    /\ svc_call.called /\ svc_call.name = "reset_sessions"
    /\ svc_call.target # svc_call.wanted
    /\ Val(svc_call.before[svc_call.target]).sessions # << >>
    /\ Val(coordinators[svc_call.wanted]).sessions # << >>

(***************************************************************************)
(* The transition of the event-list strategy against the clock.            *)
(* sched_call.listed is what _parse_schedule_state returned at time        *)
(* sched_call.t for the events of sched_call.                              *)
(***************************************************************************)
\* The events of the lookup that apply on the day and exceed the current
\* setpoint by more than 0.3.
C35_Increases(day) ==
    {e \in {ParseSingleEvent(sched_call.events[j], day) : j \in 1..Len(sched_call.events)} :
        e # None /\ Exceeds(Val(e).state, Some(Num(sched_call.current_consigne)))}

\* C35: the transition returned by the event-list strategy is never in the
\* past; when it is one of tomorrow's, no event of today that starts at or
\* after now and exceeds the current setpoint by more than 0.3 has been
\* passed over, and no qualifying event of tomorrow starts earlier.
C35_EarliestUpcoming ==
    (sched_call.called /\ sched_call.listed # None)
        => \E target \in {Val(Val(sched_call.listed).target_time)} :
             /\ target >= sched_call.t
             /\ target >= DAY
                   => /\ \A e \in C35_Increases(0) : Val(e).start_dt < sched_call.t
                      /\ \A e \in C35_Increases(1) : Val(e).start_dt >= target

\* The transition returned starts before now: it is an event that overlaps
\* the covering event and began after it.
C35_TargetInThePast ==
    /\ sched_call.called /\ sched_call.listed # None
    /\ Val(Val(sched_call.listed).target_time) < sched_call.t

\* The transition returned is tomorrow's although an event of today that
\* exceeds the current setpoint has yet to start.
C35_TodaySkipped ==
    /\ sched_call.called /\ sched_call.listed # None
    /\ Val(Val(sched_call.listed).target_time) >= DAY
    /\ \E e \in C35_Increases(0) : Val(e).start_dt >= sched_call.t

\* The transition returned is tomorrow's and a qualifying event of tomorrow
\* starts before it.
C35_TomorrowNotEarliest ==
    /\ sched_call.called /\ sched_call.listed # None
    /\ \E target \in {Val(Val(sched_call.listed).target_time)} :
         /\ target >= DAY
         /\ \E e \in C35_Increases(1) : Val(e).start_dt < target

(***************************************************************************)
(* The length of an Active period.  ev describes the evaluation that has   *)
(* just been made: its inputs, the engine before it (ev.pre) and the time. *)
(***************************************************************************)
\* The evaluation was made for an Active engine with all data present, a
\* non-zero next setpoint and an indoor temperature below it by more than 0.2.
C36_ActiveAndCold ==
    /\ ev.called /\ ev.pre.state.active
    /\ ev.temp_indoor # None /\ ev.minutes_needed # None
    /\ Truthy(ev.next_consigne)
    /\ Val(ev.temp_indoor) < Val(ev.next_consigne) - REACHED_BAND

\* C36: an Active period has no time limit: an evaluation of an Active
\* engine with indoor temperature, minutes-needed and a non-zero next
\* setpoint present, and the indoor temperature below the next setpoint
\* - 0.2, leaves the engine Active, whatever the target time and whether
\* or not shouldStart holds.
C36_ActiveHasNoTimeLimit == C36_ActiveAndCold => state.active

\* An Active engine whose target time has passed is evaluated while cold,
\* with shouldStart false, and is Active afterwards.
C36_Witness ==
    /\ C36_ActiveAndCold
    /\ ev.pre.state.target_time # None
    /\ Val(ev.pre.state.target_time) < ev.at
    /\ ~ShouldStart(ev.at, Val(ev.minutes_needed), Val(ev.next_consigne),
                    ev.target_time, ev.current_sched)
    /\ state.active

(***************************************************************************)
(* The cycle after a drop of the schedule.  cyc.dropped says that the      *)
(* cycle found the engine Idle with the orchestrator's flag still set,     *)
(* which is how the schedule-change handler leaves them.                   *)
(***************************************************************************)
\* C37: the control cycle that follows a deactivation by the schedule-change
\* handler closes the pending feedback observation, unless the engine is
\* activated again in that cycle.
C37_ClosedByNextCycle ==
    (cyc.called /\ cyc.dropped)
        => (state.active \/ (cyc.appended /\ pending_start = None))

\* Outside a cycle the engine is Idle with the flag set only when the
\* handler has deactivated it, and the observation is still pending then.
C37_DroppedLeavesPending ==
    (~cyc.called /\ anticipation_active /\ ~state.active) => pending_start # None

\* The cycle after the drop had no indoor reading: the edge is consumed and
\* the observation stays pending.
C37_LeftPending ==
    /\ cyc.called /\ cyc.dropped
    /\ cyc.temp_indoor = None
    /\ ~state.active /\ ~anticipation_active
    /\ pending_start # None

(***************************************************************************)
(* Setpoint commands.  ev.attempts are the commands of the evaluation      *)
(* just made; no other step of the engine calls the actuator.              *)
(***************************************************************************)
\* C38: every setpoint command is sent from within an evaluation, at an
\* activation or as a resend of an engine that stays Active, and carries
\* the target temperature of the Active state; an evaluation that leaves
\* the engine Idle, or deactivates it, sends nothing.
C38_CommandsCarryActiveTarget ==
    (ev.called /\ ev.attempts # << >>)
        => /\ Len(ev.attempts) = 1
           /\ state.active
           /\ state.target_consigne = Some(ev.attempts[1])
           /\ ev.pre.state.active
                 => ev.pre.state.target_consigne = state.target_consigne

\* A resend after the climate entity has drifted from the target: the
\* command carries the state's target, not the next setpoint's value and not
\* the climate entity's.
C38_Witness ==
    /\ ev.called /\ ev.pre.state.active
    /\ state.active /\ state.target_consigne # None
    /\ ev.attempts = <<Val(state.target_consigne)>>
    /\ Drifted(ev.climate_setpoint, state.target_consigne)

(***************************************************************************)
(* Cycles of a disabled zone.  cyc.before holds the zone's fields as the   *)
(* cycle found them.                                                       *)
(***************************************************************************)
\* C39: a control cycle of a disabled zone sends no actuator command, does
\* not run the session tracking and leaves the engine state, the active
\* flag, the open heating session, the session history and statistics,
\* lastOffTime and the feedback's pending observation and history as they
\* were.
C39_DisabledCycleChangesNothing ==
    (cyc.called /\ ~enabled)
        => /\ cyc.tracked = NotTracked
           /\ cyc.attempts = << >>
           /\ cyc.before = ZoneFields

\* A disabled cycle made while a heating session is open and the actuator
\* has stopped heating: an enabled cycle would have closed the session.
C39_Witness ==
    /\ cyc.called /\ ~enabled
    /\ cyc.hvac_action = "idle"
    /\ current_session # None
    /\ cyc.before = ZoneFields

(***************************************************************************)
(* The base margin and the feedback.  cyc.effective_margin is the margin   *)
(* the cycle just made has computed; recorded counts the results recorded  *)
(* so far.                                                                 *)
(***************************************************************************)
\* C40: feedback never modifies the base margin, and in every control cycle
\* the effective margin differs from base margin + advisor adjustment by at
\* most twice the step, however many results have been recorded.
C40_FeedbackBounded ==
    /\ safety_margin = DEFAULT_SAFETY_MARGIN
    /\ cyc.called
          => Abs(cyc.effective_margin - (safety_margin + llm_margin_adjustment))
                 <= 2 * MARGIN_ADJUST_STEP

\* A cycle made after a result has been recorded, with the feedback's
\* suggestion at its largest.
C40_Witness ==
    /\ cyc.called
    /\ recorded >= 1
    /\ cyc.effective_margin = safety_margin + llm_margin_adjustment + 2 * MARGIN_ADJUST_STEP

====
